---- MODULE Spec2Model ----
(***************************************************************************)
(* A model of src/youtube_playlist_manager.py: the quota ledger of         *)
(* UltraEfficientYouTubeManager and the steps of run_daily_videos_manager  *)
(* (find or create the "Yesterday" playlist, remove old videos, list the   *)
(* subscriptions, look up the upload playlists, scan the feeds, look up    *)
(* the video details, add the videos, write the links to the sheet, save   *)
(* the progress file).                                                     *)
(*                                                                         *)
(* Instants are integers, in milliseconds of UTC.  An upstream resource    *)
(* (a video, a channel) is a record; the value that stands for its id in   *)
(* the program's lists is that record, and only the actions that model a   *)
(* remote call read its fields, as the response of that call.              *)
(***************************************************************************)
EXTENDS Integers, Sequences, FiniteSets, TLC

(***************************************************************************)
(* Program constants.                                                      *)
(***************************************************************************)
BUDGET == 10000
READ_COST == 1
MUTATION_COST == 50
MAX_RESULTS == 50
BATCH_SIZE == 50
SUBS_STOP == 9000
SCAN_STOP == 9500
DETAILS_STOP == 9500
MIN_DURATION == 600

HOUR == 60 * 60 * 1000
DAY == 24 * HOUR
\* TIMEZONE = Asia/Hong_Kong, UTC+8 the whole year
HK_UTC_OFFSET == 8 * HOUR
\* timedelta(hours=23, minutes=59, seconds=59)
END_OF_DAY_DELTA == 23 * HOUR + 59 * 60 * 1000 + 59 * 1000

(***************************************************************************)
(* Bounds of the model.                                                    *)
(***************************************************************************)
\* remote calls that raise, at most, in one behaviour of the whole run
MaxFaults == 2
\* the size of the large managed playlist of the whole run
BigPlaylist == 1200
\* the size of the managed playlist whose removal leaves room for a few inserts
MidPlaylist == 187

Min(a, b) == IF a <= b THEN a ELSE b
Max(a, b) == IF a >= b THEN a ELSE b
CeilDiv(n, d) == (n + d - 1) \div d

Range(s) == {s[k] : k \in 1..Len(s)}

(***************************************************************************)
(* Timestamps.  A publishedAt string is well formed (wf) and denotes the   *)
(* instant t, or is malformed and makes fromisoformat raise.               *)
(***************************************************************************)
Stamp(t) == [wf |-> TRUE, t |-> t]
BadStamp == [wf |-> FALSE, t |-> 0]

\* datetime.fromisoformat(published_at.replace('Z', '+00:00')): the instant,
\* or the value "raise" for a ValueError
fromisoformat(published_at) ==
    IF published_at.wf THEN published_at.t ELSE -1

Raises_Never(parsed) == FALSE

\* the call raised: control goes to the except clause
Raises(parsed) == parsed = -1

\* get_yesterday_dates with the clock at the instant clock (UTC):
\* <<yesterday_start_utc, yesterday_end_utc>>
get_yesterday_dates(clock) ==
    LET hk_now == clock + HK_UTC_OFFSET
        hk_midnight == hk_now - (hk_now % DAY)
        hk_yesterday_start == hk_midnight - DAY
        hk_yesterday_end == hk_yesterday_start + END_OF_DAY_DELTA
    IN  <<hk_yesterday_start - HK_UTC_OFFSET, hk_yesterday_end - HK_UTC_OFFSET>>

(***************************************************************************)
(* Duration strings are sequences of one-character strings.                *)
(***************************************************************************)
Digits == {"0", "1", "2", "3", "4", "5", "6", "7", "8", "9"}

DigitVal(c) ==
    CASE c = "0" -> 0 [] c = "1" -> 1 [] c = "2" -> 2 [] c = "3" -> 3
      [] c = "4" -> 4 [] c = "5" -> 5 [] c = "6" -> 6 [] c = "7" -> 7
      [] c = "8" -> 8 [] c = "9" -> 9

RECURSIVE DigitRun(_, _)
\* the length of the longest run of digits of s that starts at position p
DigitRun(s, p) ==
    IF p <= Len(s) /\ s[p] \in Digits THEN 1 + DigitRun(s, p + 1) ELSE 0

RECURSIVE ToInt(_, _, _)
\* int() of the n digits of s that end at position p + n - 1
ToInt(s, p, n) ==
    IF n = 0 THEN 0 ELSE 10 * ToInt(s, p, n - 1) + DigitVal(s[p + n - 1])

\* one optional group (?:(\d+)U)? of the pattern, tried at position p: the
\* group's value (0 when the group does not take part) and the next position
Group(s, p, unit) ==
    LET n == DigitRun(s, p)
    IN  IF n >= 1 /\ p + n <= Len(s) /\ s[p + n] = unit
        THEN [val |-> ToInt(s, p, n), next |-> p + n + 1]
        ELSE [val |-> 0, next |-> p]

\* re.match(r'PT(?:(\d+)H)?(?:(\d+)M)?(?:(\d+)S)?', duration_str)
parse_duration(duration_str) ==
    IF Len(duration_str) = 0 THEN 0
    ELSE IF ~(Len(duration_str) >= 2 /\ duration_str[1] = "P" /\ duration_str[2] = "T")
    THEN 0
    ELSE LET h == Group(duration_str, 3, "H")
             m == Group(duration_str, h.next, "M")
             sec == Group(duration_str, m.next, "S")
         IN  h.val * 3600 + m.val * 60 + sec.val

IsLong_Inclusive(video) == parse_duration(video.duration) >= MIN_DURATION

\* if duration_seconds > 600
IsLong(video) == parse_duration(video.duration) > MIN_DURATION

\* the list whose element number place[j] is s[j]
Arrange(s, place) ==
    [n \in 1..Len(s) |-> s[CHOOSE j \in 1..Len(s) : place[j] = n]]

\* s in the stable descending order of the keys seconds[j]: an element comes
\* after every one with a greater key and after the ones with an equal key
\* that were before it (<<>> \o f is f as a tuple, each element evaluated once)
SortBySeconds(s, seconds) ==
    Arrange(s, <<>> \o [j \in 1..Len(s) |->
                  1 + Cardinality({x \in 1..Len(s) :
                                     \/ seconds[x] > seconds[j]
                                     \/ seconds[x] = seconds[j] /\ x < j})])

SortByDuration_Skipped(s) == s

\* all_video_details.sort(key=lambda x: x['duration_seconds'], reverse=True)
\* list.sort is stable and reverse=True keeps the order of equal elements
SortByDuration(s) ==
    SortBySeconds(s, <<>> \o [j \in 1..Len(s) |-> parse_duration(s[j].duration)])

(***************************************************************************)
(* Pages and batches.                                                      *)
(***************************************************************************)
\* page number token (0 based) of a listing of s with maxResults=50
Page(s, token) ==
    SubSeq(s, token * MAX_RESULTS + 1, Min(Len(s), (token + 1) * MAX_RESULTS))

HasNextPage_Always(s, token) == TRUE

\* response.get('nextPageToken') is set
HasNextPage(s, token) == (token + 1) * MAX_RESULTS < Len(s)

\* the first position of batch number b (1 based) of ids[i:i+50]
BatchFirst(b) == (b - 1) * BATCH_SIZE + 1

Batch_OneTooMany(ids, b) ==
    SubSeq(ids, BatchFirst(b), Min(Len(ids), BatchFirst(b) + BATCH_SIZE))

\* [ids[i:i+50] for i in range(0, len(ids), 50)][b - 1]
Batch(ids, b) ==
    SubSeq(ids, BatchFirst(b), Min(Len(ids), BatchFirst(b) + BATCH_SIZE - 1))

RECURSIVE RangeLen(_, _, _)
\* len(range(start, stop, step))
RangeLen(start, stop, step) ==
    IF start >= stop THEN 0 ELSE 1 + RangeLen(start + step, stop, step)

\* len([ids[i:i+50] for i in range(0, len(ids), 50)])
NumBatches(ids) == RangeLen(0, Len(ids), BATCH_SIZE)

(***************************************************************************)
(* The scan of one upload feed page.                                       *)
(***************************************************************************)
InWindow_Always(published_date, ys, ye) == TRUE

\* if yesterday_start <= published_date <= yesterday_end
InWindow(published_date, ys, ye) == ys <= published_date /\ published_date <= ye

StopsScan_Never(published_date, ys) == FALSE

\* elif published_date < yesterday_start: break
StopsScan(published_date, ys) == published_date < ys

\* the for loop over response['items'] from item k on: the video ids it
\* appends and the number of items it examines.  The loop ends at the first
\* item that reaches the break, or after the last item.
ScanFrom(items, k, ys, ye) ==
    LET Parsed(j) == fromisoformat(items[j].publishedAt)
        Appends(j) == ~Raises(Parsed(j)) /\ InWindow(Parsed(j), ys, ye)
        Breaks(j) == ~Raises(Parsed(j)) /\ ~InWindow(Parsed(j), ys, ye)
                       /\ StopsScan(Parsed(j), ys)
        breaks == {j \in k..Len(items) : Breaks(j)}
        last == IF breaks = {} THEN Len(items)
                ELSE CHOOSE j \in breaks : \A x \in breaks : j <= x
        appended == {j \in k..last : Appends(j)}
        Nth(n) == CHOOSE j \in appended :
                     Cardinality({x \in appended : x < j}) = n - 1
    IN  [ids |-> [n \in 1..Cardinality(appended) |-> items[Nth(n)].video],
         examined |-> IF last >= k THEN last - k + 1 ELSE 0]

(***************************************************************************)
(* State.                                                                  *)
(***************************************************************************)
VARIABLES
    pc,                    \* the step of run_daily_videos_manager to take next
    outcome,               \* how the run ended, "running" until then
    quota_used,            \* self.quota_used
    clock,                 \* datetime.datetime.now, as a UTC instant
    playlists,             \* upstream: the playlists named "Yesterday", each a list of items
    handles,               \* upstream: the playlist item ids given out so far
    subscriptions,         \* upstream: the subscribed channels
    yesterday_playlist_id, \* 0 for None
    yesterday_start,       \* run_daily_videos_manager's yesterday_start
    current_videos,        \* all_videos of get_playlist_videos, then current_videos
    next_page_token,       \* the number of the page to request next
    actual_publish_dates,  \* the videos that have an entry in the dict
    videos_to_remove,
    removed_count,
    i,                     \* the position of the for loop being executed (1 based)
    channels,              \* all_channels of get_subscriptions_batch, then channels
    uploads_data,          \* uploads_map, in insertion order
    all_video_ids,
    long_videos,           \* all_video_details, then long_videos
    videos_to_add,
    added_count,
    faults_left,           \* remote calls that may still raise
    progress_file,         \* daily_playlist_progress.json: <<>> when absent, else <<text>>
    progress,              \* run_daily_videos_manager's progress: <<>> for None
    sheets,                \* self.sheets is set
    sheet,                 \* upstream: the rows of the sheet 'Video Links'
    spreadsheet_id,        \* 0 for None
    sheet_success,
    saved,                 \* history: the records handed to save_progress
    reads_done,            \* history: the read calls whose execute() returned
    mutations_done,        \* history: the mutating calls whose execute() returned
    call,                  \* history: the last remote call executed
    lookup_log,            \* history: the chunks the current batch lookup requested
    scan_log,              \* history: per source scanned, what the scan did
    pass_start_quota,      \* history: quota_used when the current pass began
    max_channels,          \* the argument of run_daily_videos_manager, 0 for None
    max_videos             \* the argument of run_daily_videos_manager, 0 for None

vars == <<pc, outcome, quota_used, clock, playlists, handles, subscriptions,
          yesterday_playlist_id, yesterday_start, current_videos,
          next_page_token, actual_publish_dates, videos_to_remove,
          removed_count, i, channels, uploads_data, all_video_ids,
          long_videos, videos_to_add, added_count, faults_left, call,
          lookup_log, scan_log, pass_start_quota, progress_file, progress,
          sheets, sheet, spreadsheet_id, sheet_success, saved, reads_done,
          mutations_done, max_channels, max_videos>>

upstream == <<clock, playlists, handles, subscriptions>>

report_vars == <<progress_file, progress, sheets, sheet, spreadsheet_id,
                 sheet_success, saved>>

counters == <<reads_done, mutations_done>>

limits == <<max_channels, max_videos>>

NoCall == [op |-> "none", cost |-> 0, before |-> 0, ok |-> TRUE, gated |-> FALSE]

(***************************************************************************)
(* The quota ledger and a remote call.                                     *)
(***************************************************************************)
log_quota_Twice(cost) == quota_used' = quota_used + 2 * cost

\* self.quota_used += cost
log_quota(cost) == quota_used' = quota_used + cost

MutatingOps == {"playlists.insert", "playlistItems.insert", "playlistItems.delete"}

\* request.execute() followed by self.log_quota(op, cost) inside one try
\* block: execute() returns (ok) and the cost is logged, or it raises and
\* the log_quota line is not reached.  gated: the code tests the ledger
\* between the previous call and this one.
Execute(op, cost, gated, ok) ==
    /\ ok \/ faults_left > 0
    /\ call' = [op |-> op, cost |-> cost, before |-> quota_used, ok |-> ok,
                gated |-> gated]
    /\ IF ok THEN log_quota(cost) /\ faults_left' = faults_left
             ELSE quota_used' = quota_used /\ faults_left' = faults_left - 1
    /\ reads_done' = IF ok /\ op \notin MutatingOps THEN reads_done + 1
                     ELSE reads_done
    /\ mutations_done' = IF ok /\ op \in MutatingOps THEN mutations_done + 1
                         ELSE mutations_done

RemovalRefused_NoMargin == quota_used > BUDGET

\* if self.quota_used + 50 > 10000: break (the removals)
RemovalRefused == quota_used + MUTATION_COST > BUDGET

InsertRefused_OffByOne == quota_used + MUTATION_COST >= BUDGET

\* if self.quota_used + 50 > 10000: break (the inserts)
InsertRefused == quota_used + MUTATION_COST > BUDGET

OnBatchError_Break == "break"

\* except Exception: ... continue, in the loop over the batches of a lookup
OnBatchError == "continue"

ScanRefused_AtBudget == quota_used > BUDGET

OnItemError_Abort == "abort"

\* except Exception as e: print(...), in the loop over the items of a
\* mutation pass: the loop goes on with the next item
OnItemError == "next"

InsertItem_IfAbsent(items, item) ==
    IF \E k \in 1..Len(items) : items[k].video = item.video THEN items
    ELSE Append(items, item)

\* upstream: playlistItems().insert puts the item at the end of the playlist,
\* whether or not the playlist already holds the video
InsertItem(items, item) == Append(items, item)

\* if self.quota_used > 9500: break (the feed scan)
ScanRefused == quota_used > SCAN_STOP

\* if self.quota_used > 9500: break (the video details lookup)
DetailsRefused == quota_used > DETAILS_STOP

(***************************************************************************)
(* The progress file.  json.dump writes True, False and None as the        *)
(* literals true, false and null; json.load reads them back.               *)
(***************************************************************************)
\* hk_yesterday.strftime('%Y-%m-%d'): the Hong Kong calendar day in which the
\* window starts, as the number of that day
TargetDate(ys) == (ys + HK_UTC_OFFSET) \div DAY

JsonBool(b) == IF b THEN "true" ELSE "false"
PyBool(text) == text = "true"

\* an id that may be None (0 in the model)
JsonId(id) == IF id = 0 THEN [null |-> TRUE, n |-> 0] ELSE [null |-> FALSE, n |-> id]
PyId(value) == IF value.null THEN 0 ELSE value.n

\* json.dump(data, f, indent=2): the text of the file
json_dump(data) ==
    [data EXCEPT !.spreadsheet_id = JsonId(@),
                 !.sheets_integration = JsonBool(@),
                 !.completed = JsonBool(@)]

\* json.load(f)
json_load(text) ==
    [text EXCEPT !.spreadsheet_id = PyId(@),
                 !.sheets_integration = PyBool(@),
                 !.completed = PyBool(@)]

save_progress_Append(file, data) == file \o <<json_dump(data)>>

\* save_progress(data): open(filename, 'w') replaces what the file held
save_progress(file, data) == <<json_dump(data)>>

\* load_progress(): the record of the file, None (<<>>) when there is no file
LoadedProgress(file) ==
    IF file = <<>> THEN <<>> ELSE <<json_load(file[1])>>

\* try: os.remove('daily_playlist_progress.json') except: pass
\* the file is absent afterwards, whether or not it was there
os_remove(file) == <<>>

IsCompleted_Never(added, videos) == FALSE

\* added_count == len(videos_to_add)
IsCompleted(added, videos) == added = Len(videos)

(***************************************************************************)
(* The sheet 'Video Links': a list of rows, each a list of cells.          *)
(***************************************************************************)
\* f"https://www.youtube.com/watch?v={video['id']}"
Url(video) == <<"https://www.youtube.com/watch?v=", video.id>>

HeaderRow == <<"Video Links">>

\* all_data = header_row + video_links
AllData(videos) == <<HeaderRow>> \o [k \in 1..Len(videos) |-> <<Url(videos[k])>>]

ClearRange_Nothing(rows) == rows

\* upstream: values().clear(range='Video Links!A:Z') empties every row
ClearRange(rows) == <<>>

\* upstream: values().update(range='Video Links!A1', body={'values': values})
\* writes the rows of values from the first row on and leaves the rows below
UpdateFromA1(rows, values) == values \o SubSeq(rows, Len(values) + 1, Len(rows))

(***************************************************************************)
(* STEP 1: find or create the "Yesterday" playlist.                        *)
(***************************************************************************)
removal_locals == <<current_videos, next_page_token, actual_publish_dates,
                    videos_to_remove, removed_count>>
discovery_locals == <<channels, uploads_data, all_video_ids, long_videos,
                      videos_to_add, added_count>>
logs == <<lookup_log, scan_log, pass_start_quota>>

\* if limit and len(items) > limit: items = items[:limit]
Limited(items, limit) ==
    IF limit # 0 /\ Len(items) > limit THEN SubSeq(items, 1, limit) ELSE items

\* find_playlist_by_name("Yesterday"), after get_yesterday_dates()
find_playlist_by_name ==
    /\ pc = "find"
    /\ \E ok \in BOOLEAN :
         /\ Execute("playlists.list", READ_COST, FALSE, ok)
         /\ yesterday_playlist_id' = IF ok /\ Len(playlists) > 0 THEN 1 ELSE 0
    /\ yesterday_start' = get_yesterday_dates(clock)[1]
    /\ pc' = IF yesterday_playlist_id' # 0 THEN "list_playlist" ELSE "create"
    /\ UNCHANGED <<outcome, upstream, removal_locals, i, discovery_locals, logs>>
    /\ UNCHANGED report_vars
    /\ UNCHANGED limits

\* create_playlist("Yesterday", description); return when it gives None
create_playlist ==
    /\ pc = "create"
    /\ \E ok \in BOOLEAN :
         /\ Execute("playlists.insert", MUTATION_COST, FALSE, ok)
         /\ IF ok
            THEN /\ playlists' = Append(playlists, <<>>)
                 /\ yesterday_playlist_id' = Len(playlists) + 1
                 /\ pc' = "list_playlist"
                 /\ outcome' = outcome
            ELSE /\ pc' = "done"
                 /\ outcome' = "create_failed"
                 /\ UNCHANGED <<playlists, yesterday_playlist_id>>
    /\ UNCHANGED <<clock, handles, subscriptions, yesterday_start,
                   removal_locals, i, discovery_locals, logs>>
    /\ UNCHANGED report_vars
    /\ UNCHANGED limits

(***************************************************************************)
(* STEP 2: remove_old_videos_from_playlist.                                *)
(***************************************************************************)
\* one turn of the while loop of get_playlist_videos; an exception makes it
\* return [], and an empty list makes remove_old_videos_from_playlist return 0
get_playlist_videos ==
    /\ pc = "list_playlist"
    /\ \E ok \in BOOLEAN :
         /\ Execute("playlistItems.list", READ_COST, FALSE, ok)
         /\ IF ok
            THEN LET all_videos == current_videos \o
                         Page(playlists[yesterday_playlist_id], next_page_token)
                 IN  /\ current_videos' = all_videos
                     /\ IF HasNextPage(playlists[yesterday_playlist_id],
                                       next_page_token)
                        THEN /\ next_page_token' = next_page_token + 1
                             /\ pc' = pc
                        ELSE /\ next_page_token' = next_page_token
                             /\ pc' = IF all_videos = <<>> THEN "load_progress"
                                      ELSE "publish_dates"
            ELSE /\ current_videos' = <<>>
                 /\ next_page_token' = next_page_token
                 /\ pc' = "load_progress"
    /\ i' = 1
    /\ actual_publish_dates' = {}
    /\ videos_to_remove' = <<>>
    /\ removed_count' = 0
    /\ UNCHANGED <<outcome, upstream, yesterday_playlist_id, yesterday_start,
                   discovery_locals, logs>>
    /\ UNCHANGED report_vars
    /\ UNCHANGED limits

\* if published_date < yesterday_start: videos_to_remove.append(video)
IsOld(published_date, ys) == published_date < ys

\* the loop that fills videos_to_remove; a date that does not parse is skipped
MarkedForRemoval(videos, dates, ys) ==
    LET Marked(video) ==
            /\ video.video \in dates
            /\ ~Raises(fromisoformat(video.video.publishedAt))
            /\ IsOld(fromisoformat(video.video.publishedAt), ys)
    IN  SelectSeq(videos, Marked)

\* the for loop over video_batches: one videos.list per batch, an exception
\* skips the batch; after the last batch videos_to_remove is computed
get_publish_dates ==
    /\ pc = "publish_dates"
    /\ IF i > NumBatches(current_videos)
       THEN /\ videos_to_remove' =
                   MarkedForRemoval(current_videos, actual_publish_dates,
                                    yesterday_start)
            /\ pc' = "removing"
            /\ i' = 1
            /\ pass_start_quota' = quota_used
            /\ UNCHANGED <<quota_used, faults_left, call, counters, actual_publish_dates>>
       ELSE /\ \E ok \in BOOLEAN :
                 /\ Execute("videos.list", READ_COST, FALSE, ok)
                 /\ actual_publish_dates' =
                       IF ok
                       THEN actual_publish_dates \cup
                            {v.video : v \in {w \in Range(Batch(current_videos, i)) :
                                                  w.video.live}}
                       ELSE actual_publish_dates
                 /\ i' = IF ok \/ OnBatchError = "continue" THEN i + 1
                         ELSE NumBatches(current_videos) + 1
            /\ UNCHANGED <<pc, videos_to_remove, pass_start_quota>>
    /\ UNCHANGED <<outcome, upstream, yesterday_playlist_id, yesterday_start,
                   current_videos, next_page_token, removed_count,
                   discovery_locals, lookup_log, scan_log>>
    /\ UNCHANGED report_vars
    /\ UNCHANGED limits

\* upstream: the playlist without the item of this playlist item id
WithoutItem(items, playlist_item_id) ==
    LET Other(x) == x.playlist_item_id # playlist_item_id
    IN  SelectSeq(items, Other)

\* the for loop over videos_to_remove
remove_old_videos ==
    /\ pc = "removing"
    /\ IF i > Len(videos_to_remove) \/ RemovalRefused
       THEN /\ pc' = "load_progress"
            /\ UNCHANGED <<quota_used, faults_left, call, counters, playlists,
                           removed_count, i>>
       ELSE /\ \E ok \in BOOLEAN :
                 /\ Execute("playlistItems.delete", MUTATION_COST, TRUE, ok)
                 /\ IF ok
                    THEN /\ playlists' =
                              [playlists EXCEPT ![yesterday_playlist_id] =
                                 WithoutItem(@, videos_to_remove[i].playlist_item_id)]
                         /\ removed_count' = removed_count + 1
                    ELSE UNCHANGED <<playlists, removed_count>>
                 /\ pc' = IF ok \/ OnItemError = "next" THEN pc
                          ELSE "load_progress"
            /\ i' = i + 1
    /\ UNCHANGED <<outcome, clock, handles, subscriptions, yesterday_playlist_id,
                   yesterday_start, current_videos, next_page_token,
                   actual_publish_dates, videos_to_remove, discovery_locals,
                   logs>>
    /\ UNCHANGED report_vars
    /\ UNCHANGED limits

\* progress = self.load_progress(): only a message depends on it
load_progress ==
    /\ pc = "load_progress"
    /\ pc' = "subs"
    /\ progress' = LoadedProgress(progress_file)
    /\ UNCHANGED <<progress_file, sheets, sheet, spreadsheet_id, sheet_success,
                   saved, counters>>
    /\ channels' = <<>>
    /\ next_page_token' = 0
    /\ UNCHANGED <<outcome, quota_used, upstream, yesterday_playlist_id,
                   yesterday_start, current_videos, actual_publish_dates,
                   videos_to_remove, removed_count, i, uploads_data,
                   all_video_ids, long_videos, videos_to_add, added_count,
                   faults_left, call, logs>>
    /\ UNCHANGED limits

(***************************************************************************)
(* STEP 3: get_subscriptions_batch.                                        *)
(***************************************************************************)
\* if self.quota_used > 9000: break, tested after a page that has a next one
SubsRefused(used) == used > SUBS_STOP

\* one turn of the while loop; nothing catches an exception here, so it ends
\* the run in main().  An empty list makes run_daily_videos_manager return,
\* another one is cut to max_channels.
get_subscriptions_batch ==
    /\ pc = "subs"
    /\ \E ok \in BOOLEAN :
         /\ Execute("subscriptions.list", READ_COST, next_page_token > 0, ok)
         /\ IF ok
            THEN LET all_channels == channels \o Page(subscriptions, next_page_token)
                     more == /\ HasNextPage(subscriptions, next_page_token)
                             /\ ~SubsRefused(quota_used')
                 IN  /\ channels' = IF more THEN all_channels
                                      ELSE Limited(all_channels, max_channels)
                     /\ next_page_token' =
                           IF more THEN next_page_token + 1 ELSE next_page_token
                     /\ pc' = IF more THEN pc
                              ELSE IF all_channels = <<>> THEN "done"
                              ELSE "uploads"
                     /\ outcome' = IF ~more /\ all_channels = <<>>
                                   THEN "no_channels" ELSE outcome
            ELSE /\ pc' = "done"
                 /\ outcome' = "aborted"
                 /\ UNCHANGED <<channels, next_page_token>>
    /\ i' = 1
    /\ uploads_data' = <<>>
    /\ lookup_log' = <<>>
    /\ UNCHANGED <<upstream, yesterday_playlist_id, yesterday_start,
                   current_videos, actual_publish_dates, videos_to_remove,
                   removed_count, all_video_ids, long_videos, videos_to_add,
                   added_count, scan_log, pass_start_quota>>
    /\ UNCHANGED report_vars
    /\ UNCHANGED limits

(***************************************************************************)
(* STEP 4: batch_get_channel_uploads.                                      *)
(***************************************************************************)
\* the records of response['items']: upstream answers for the ids it has
Found(batch) ==
    LET Live(x) == x.live
    IN  SelectSeq(batch, Live)

\* the for loop over channel_batches
batch_get_channel_uploads ==
    /\ pc = "uploads"
    /\ IF i > NumBatches(channels)
       THEN /\ pc' = "scan"
            /\ i' = 1
            /\ all_video_ids' = <<>>
            /\ scan_log' = <<>>
            /\ UNCHANGED <<quota_used, faults_left, call, counters, uploads_data, lookup_log>>
       ELSE /\ \E ok \in BOOLEAN :
                 /\ Execute("channels.list", READ_COST, FALSE, ok)
                 /\ uploads_data' =
                       IF ok THEN uploads_data \o Found(Batch(channels, i))
                       ELSE uploads_data
                 /\ lookup_log' =
                       Append(lookup_log, [first |-> BatchFirst(i),
                                           n |-> Len(Batch(channels, i)),
                                           ok |-> ok])
                 /\ i' = IF ok \/ OnBatchError = "continue" THEN i + 1
                         ELSE NumBatches(channels) + 1
            /\ UNCHANGED <<pc, all_video_ids, scan_log>>
    /\ UNCHANGED <<outcome, upstream, yesterday_playlist_id, yesterday_start,
                   removal_locals, channels, long_videos, videos_to_add,
                   added_count, pass_start_quota>>
    /\ UNCHANGED report_vars
    /\ UNCHANGED limits

(***************************************************************************)
(* STEP 5: batch_get_recent_videos_daily.                                  *)
(***************************************************************************)
\* the for loop over uploads_data.items(); after it, an empty video_ids makes
\* run_daily_videos_manager update the sheet with an empty list and return
batch_get_recent_videos_daily ==
    /\ pc = "scan"
    /\ IF i > Len(uploads_data) \/ ScanRefused
       THEN /\ pc' = IF all_video_ids = <<>> THEN "sheet" ELSE "details"
            /\ outcome' = IF all_video_ids = <<>> THEN "no_videos" ELSE outcome
            /\ i' = 1
            /\ long_videos' = <<>>
            /\ lookup_log' = <<>>
            /\ UNCHANGED <<quota_used, faults_left, call, counters, all_video_ids, scan_log>>
       ELSE /\ \E ok \in BOOLEAN :
                 /\ Execute("playlistItems.list", READ_COST, TRUE, ok)
                 /\ LET window == get_yesterday_dates(clock)
                        found == ScanFrom(Page(uploads_data[i].feed, 0), 1,
                                          window[1], window[2])
                    IN  /\ all_video_ids' =
                              IF ok THEN all_video_ids \o found.ids
                              ELSE all_video_ids
                        /\ scan_log' =
                              Append(scan_log,
                                     [source |-> i, ok |-> ok,
                                      examined |-> IF ok THEN found.examined ELSE 0,
                                      ids |-> IF ok THEN found.ids ELSE <<>>])
            /\ i' = i + 1
            /\ UNCHANGED <<pc, outcome, long_videos, lookup_log>>
    /\ UNCHANGED <<upstream, yesterday_playlist_id, yesterday_start,
                   removal_locals, channels, uploads_data, videos_to_add,
                   added_count, pass_start_quota>>
    /\ UNCHANGED report_vars
    /\ UNCHANGED limits

(***************************************************************************)
(* STEP 6: batch_get_video_details.                                        *)
(***************************************************************************)
\* the videos of response['items'] that pass the duration filter
LongVideos(batch) ==
    LET Kept(video) == video.live /\ IsLong(video)
    IN  SelectSeq(batch, Kept)

\* the for loop over video_batches, then the sort; an empty long_videos makes
\* run_daily_videos_manager update the sheet with an empty list and return,
\* another one is cut to max_videos to give videos_to_add
batch_get_video_details ==
    /\ pc = "details"
    /\ IF i > NumBatches(all_video_ids) \/ DetailsRefused
       THEN /\ long_videos' = SortByDuration(long_videos)
            /\ pc' = IF long_videos = <<>> THEN "sheet" ELSE "adding"
            /\ outcome' = IF long_videos = <<>> THEN "no_long_videos" ELSE outcome
            /\ videos_to_add' = Limited(long_videos', max_videos)
            /\ added_count' = 0
            /\ i' = 1
            /\ pass_start_quota' = quota_used
            /\ UNCHANGED <<quota_used, faults_left, call, counters, lookup_log>>
       ELSE /\ \E ok \in BOOLEAN :
                 /\ Execute("videos.list", READ_COST, TRUE, ok)
                 /\ long_videos' =
                       IF ok THEN long_videos \o LongVideos(Batch(all_video_ids, i))
                       ELSE long_videos
                 /\ lookup_log' =
                       Append(lookup_log, [first |-> BatchFirst(i),
                                           n |-> Len(Batch(all_video_ids, i)),
                                           ok |-> ok])
                 /\ i' = IF ok \/ OnBatchError = "continue" THEN i + 1
                         ELSE NumBatches(all_video_ids) + 1
            /\ UNCHANGED <<pc, outcome, videos_to_add, added_count,
                           pass_start_quota>>
    /\ UNCHANGED <<upstream, yesterday_playlist_id, yesterday_start,
                   removal_locals, channels, uploads_data, all_video_ids,
                   scan_log>>
    /\ UNCHANGED report_vars
    /\ UNCHANGED limits

(***************************************************************************)
(* STEP 7: batch_add_videos_to_playlist.                                   *)
(***************************************************************************)
AfterInsertion_RemoveAgain == "removing"

\* STEP 8 follows STEP 7
AfterInsertion == "report"

\* the for loop over videos
batch_add_videos_to_playlist ==
    /\ pc = "adding"
    /\ IF i > Len(videos_to_add) \/ InsertRefused
       THEN /\ pc' = AfterInsertion
            /\ UNCHANGED <<quota_used, faults_left, call, counters, playlists, handles,
                           added_count, i>>
       ELSE /\ \E ok \in BOOLEAN :
                 /\ Execute("playlistItems.insert", MUTATION_COST, TRUE, ok)
                 /\ IF ok
                    THEN /\ playlists' =
                              [playlists EXCEPT ![yesterday_playlist_id] =
                                 InsertItem(@, [playlist_item_id |-> handles + 1,
                                                video |-> videos_to_add[i]])]
                         /\ handles' = handles + 1
                         /\ added_count' = added_count + 1
                    ELSE UNCHANGED <<playlists, handles, added_count>>
                 /\ pc' = IF ok \/ OnItemError = "next" THEN pc
                          ELSE AfterInsertion
            /\ i' = i + 1
    /\ UNCHANGED <<outcome, clock, subscriptions, yesterday_playlist_id,
                   yesterday_start, removal_locals, channels, uploads_data,
                   all_video_ids, long_videos, videos_to_add, logs>>
    /\ UNCHANGED report_vars
    /\ UNCHANGED limits

(***************************************************************************)
(* STEP 8: the sheet, and the progress file.                               *)
(***************************************************************************)
AfterSheet_AlwaysSaves(step) == "save"

\* after the sheet the early returns return, STEP 8 goes on to the results
AfterSheet(step) == IF step = "report" THEN "save" ELSE "done"

\* get_or_create_spreadsheet, then add_video_links_to_sheet(spreadsheet_id,
\* long_videos): with self.sheets set, the id of the spreadsheet (None when
\* none is found and the creation raises), the clear and the update; an
\* exception of the clear or of the update makes the function return False.
\* The sheet calls are not logged in the quota ledger.  The early returns of
\* the run (no video, no long video: pc = "sheet") pass an empty list, which
\* long_videos is then.
add_video_links_to_sheet ==
    /\ pc \in {"sheet", "report"}
    /\ IF ~sheets
       THEN /\ spreadsheet_id' = 0
            /\ sheet_success' = FALSE
            /\ UNCHANGED <<sheet, faults_left>>
       ELSE \E got, cleared, written \in BOOLEAN :
              /\ (got /\ cleared /\ written) \/ faults_left > 0
              /\ ~got => (cleared /\ written)
              /\ ~cleared => written
              /\ faults_left' = IF got /\ cleared /\ written THEN faults_left
                                ELSE faults_left - 1
              /\ spreadsheet_id' = IF got THEN 1 ELSE 0
              /\ sheet_success' = (got /\ cleared /\ written)
              /\ sheet' = IF ~got \/ ~cleared THEN sheet
                          ELSE IF ~written THEN ClearRange(sheet)
                          ELSE UpdateFromA1(ClearRange(sheet), AllData(long_videos))
    /\ pc' = AfterSheet(pc)
    /\ UNCHANGED <<outcome, quota_used, upstream, yesterday_playlist_id,
                   yesterday_start, removal_locals, i, discovery_locals, call,
                   logs, progress_file, progress, sheets, saved, counters>>
    /\ UNCHANGED limits

\* progress_data of run_daily_videos_manager
progress_data ==
    [playlist_id |-> yesterday_playlist_id,
     spreadsheet_id |-> spreadsheet_id,
     target_date |-> TargetDate(yesterday_start),
     channels_processed |-> Len(channels),
     videos_found |-> Len(all_video_ids),
     long_videos_found |-> Len(long_videos),
     old_videos_removed |-> removed_count,
     new_videos_added |-> added_count,
     videos_available |-> Len(long_videos),
     sheets_integration |-> spreadsheet_id # 0,
     quota_used |-> quota_used,
     completed |-> IsCompleted(added_count, videos_to_add),
     timestamp |-> clock]

\* the results, self.save_progress(progress_data), and the removal of the
\* progress file when every video was added: the run ends
finish_run ==
    /\ pc = "save"
    /\ pc' = "done"
    /\ outcome' = "completed"
    /\ saved' = Append(saved, progress_data)
    /\ progress_file' =
          IF IsCompleted(added_count, videos_to_add)
          THEN os_remove(save_progress(progress_file, progress_data))
          ELSE save_progress(progress_file, progress_data)
    /\ UNCHANGED <<quota_used, upstream, yesterday_playlist_id, yesterday_start,
                   removal_locals, i, discovery_locals, faults_left, call, logs,
                   progress, sheets, sheet, spreadsheet_id, sheet_success,
                   counters>>
    /\ UNCHANGED limits

(***************************************************************************)
(* Upstream data of the whole run.                                         *)
(***************************************************************************)
Video(id, published, duration, live) ==
    [id |-> id, publishedAt |-> published, duration |-> duration, live |-> live]

FeedItem(published, video) == [publishedAt |-> published, video |-> video]

Channel(id, live, feed) == [id |-> id, live |-> live, feed |-> feed]

PT45S == <<"P", "T", "4", "5", "S">>
PT10M == <<"P", "T", "1", "0", "M">>
PT10M1S == <<"P", "T", "1", "0", "M", "1", "S">>
PT1H2M3S == <<"P", "T", "1", "H", "2", "M", "3", "S">>

\* the run starts at 10:00 Hong Kong time
RunClock == 3 * DAY + 2 * HOUR
RunStart == get_yesterday_dates(RunClock)[1]

OldVideo(id) == Video(id, Stamp(RunStart - HOUR), PT10M1S, TRUE)
NewVideo(id, duration) == Video(id, Stamp(RunStart + HOUR), duration, TRUE)

Items(videos) ==
    [k \in 1..Len(videos) |-> [playlist_item_id |-> k, video |-> videos[k]]]

\* an old video, a video of the target day, an old video that upstream no
\* longer has
SmallPlaylist ==
    Items(<<OldVideo(901), NewVideo(902, PT1H2M3S),
            Video(903, Stamp(RunStart - DAY), PT45S, FALSE)>>)

LargePlaylist == Items([k \in 1..BigPlaylist |-> OldVideo(1000 + k)])

MediumPlaylist == Items([k \in 1..MidPlaylist |-> OldVideo(1000 + k)])

RecentPlaylist == Items([k \in 1..MidPlaylist |-> NewVideo(3000 + k, PT10M1S)])

Feed1 ==
    <<FeedItem(Stamp(RunStart + DAY + HOUR), NewVideo(11, PT10M1S)),
      FeedItem(Stamp(RunStart + 2 * HOUR), NewVideo(12, PT10M1S)),
      FeedItem(Stamp(RunStart + HOUR), NewVideo(13, PT45S)),
      FeedItem(Stamp(RunStart - HOUR), OldVideo(14))>>

Feed2 ==
    <<FeedItem(Stamp(RunStart + 3 * HOUR), NewVideo(21, PT1H2M3S)),
      FeedItem(BadStamp, NewVideo(22, PT1H2M3S)),
      FeedItem(Stamp(RunStart), NewVideo(23, PT10M))>>

FewChannels == <<Channel(1, TRUE, Feed1), Channel(2, FALSE, <<>>),
                 Channel(3, TRUE, Feed2)>>

\* more channels than one page holds, each with one video of the target day
ManyChannels ==
    [k \in 1..(MAX_RESULTS + 1) |->
        Channel(100 + k, TRUE,
                <<FeedItem(Stamp(RunStart + HOUR), NewVideo(200 + k, PT10M1S))>>)]

(***************************************************************************)
(* The whole run, from the construction of the manager.                    *)
(***************************************************************************)
\* the links of four videos of an earlier day, under the header
OldSheet ==
    AllData(<<OldVideo(801), OldVideo(802), OldVideo(803), OldVideo(804)>>)

\* the progress file that a run for the day before the target day left
\* when it had added one of two videos
StaleProgress ==
    [playlist_id |-> 1, spreadsheet_id |-> 1,
     target_date |-> TargetDate(RunStart) - 1,
     channels_processed |-> 2, videos_found |-> 3, long_videos_found |-> 2,
     old_videos_removed |-> 0, new_videos_added |-> 1, videos_available |-> 2,
     sheets_integration |-> TRUE, quota_used |-> 57, completed |-> FALSE,
     timestamp |-> RunClock - DAY]

\* manager.run_daily_videos_manager(): both limits are None
NoLimits ==
    /\ max_channels = 0
    /\ max_videos = 0

ReportInit ==
    /\ progress = <<>>
    /\ spreadsheet_id = 0
    /\ sheet_success = FALSE
    /\ saved = <<>>
    /\ reads_done = 0
    /\ mutations_done = 0

\* a pass on its own: no progress file, an empty sheet
NoReportInit ==
    /\ ReportInit
    /\ NoLimits
    /\ progress_file = <<>>
    /\ sheets = TRUE
    /\ sheet = <<>>

LocalsInit ==
    /\ outcome = "running"
    /\ yesterday_playlist_id = 0
    /\ yesterday_start = 0
    /\ current_videos = <<>>
    /\ next_page_token = 0
    /\ actual_publish_dates = {}
    /\ videos_to_remove = <<>>
    /\ removed_count = 0
    /\ i = 1
    /\ channels = <<>>
    /\ uploads_data = <<>>
    /\ all_video_ids = <<>>
    /\ long_videos = <<>>
    /\ videos_to_add = <<>>
    /\ added_count = 0
    /\ call = NoCall
    /\ lookup_log = <<>>
    /\ scan_log = <<>>
    /\ pass_start_quota = 0
    /\ ReportInit

\* the inputs of a run: a managed playlist and subscriptions of ordinary
\* size with up to MaxFaults calls that raise, or the large managed playlist
\* or the long subscription list, with which no call raises, or a managed
\* playlist of four pages of videos of the target day and no subscription,
\* with one call that raises
RunInputs ==
    {[playlists |-> p, subscriptions |-> s, faults |-> MaxFaults] :
        p \in {<<>>, <<SmallPlaylist>>}, s \in {<<>>, FewChannels}}
    \cup {[playlists |-> <<LargePlaylist>>, subscriptions |-> s, faults |-> 0] :
            s \in {FewChannels, ManyChannels}}
    \cup {[playlists |-> p, subscriptions |-> ManyChannels, faults |-> 0] :
            p \in {<<SmallPlaylist>>, <<MediumPlaylist>>}}
    \cup {[playlists |-> <<RecentPlaylist>>, subscriptions |-> <<>>, faults |-> 1]}

\* the sheet and the progress file that a run finds: the Sheets client built
\* or not, the sheet empty or with the links of an earlier day, no progress
\* file or the one of an earlier day
ReportInputs ==
    {[sheets |-> TRUE, sheet |-> OldSheet], [sheets |-> TRUE, sheet |-> <<>>],
     [sheets |-> FALSE, sheet |-> OldSheet]}

ProgressFiles == {<<>>, <<json_dump(StaleProgress)>>}

Init ==
    /\ pc = "find"
    /\ quota_used = 0
    /\ clock = RunClock
    /\ \E input \in RunInputs :
         /\ playlists = input.playlists
         /\ subscriptions = input.subscriptions
         /\ faults_left = input.faults
         /\ IF input.faults = 0
            THEN sheets = TRUE /\ sheet = OldSheet /\ progress_file = <<>>
            ELSE /\ \E report \in ReportInputs :
                      sheets = report.sheets /\ sheet = report.sheet
                 /\ progress_file \in ProgressFiles
    /\ handles = IF playlists = <<>> THEN 0 ELSE Len(playlists[1])
    /\ LocalsInit
    /\ NoLimits

Next ==
    \/ find_playlist_by_name
    \/ create_playlist
    \/ get_playlist_videos
    \/ get_publish_dates
    \/ remove_old_videos
    \/ load_progress
    \/ get_subscriptions_batch
    \/ batch_get_channel_uploads
    \/ batch_get_recent_videos_daily
    \/ batch_get_video_details
    \/ batch_add_videos_to_playlist
    \/ add_video_links_to_sheet
    \/ finish_run

Spec == Init /\ [][Next]_vars

(***************************************************************************)
(* The quota ledger: C1 to C4, on the whole run.                           *)
(***************************************************************************)
\* C1: in every reachable state of a run quota_used never decreases and
\* never exceeds the budget of 10000.
C1_QuotaMonotoneWithinBudget ==
    /\ [][quota_used' >= quota_used]_vars
    /\ [](quota_used <= BUDGET)

\* C2: every costed remote call is executed only after a budget check, made
\* immediately before it, found that quota_used plus the cost of the call
\* stays within 10000.
C2_EveryCallChecked ==
    call.op # "none" => call.gated /\ call.before + call.cost <= BUDGET

\* C3: a mutating call is issued only in a state where quota_used + 50 <=
\* 10000, no mutation raises quota_used above 10000, and once quota_used +
\* 50 > 10000 a step of the removal pass or of the insertion pass ends the
\* pass without a call.
C3_MutationsWithinBudget ==
    /\ [](call.op \in MutatingOps =>
            (call.before + MUTATION_COST <= BUDGET /\ quota_used <= BUDGET))
    /\ [][(pc \in {"removing", "adding"} /\ quota_used + MUTATION_COST > BUDGET)
            => (pc' \notin {"removing", "adding"} /\
                UNCHANGED <<quota_used, playlists, call, removed_count,
                            added_count>>)]_vars

\* the removal pass stopped on the budget with videos left to remove, after
\* a delete issued with exactly 50 units left before the 199 it could afford
C3_Witness ==
    /\ pc = "load_progress"
    /\ i <= Len(videos_to_remove)
    /\ quota_used + MUTATION_COST > BUDGET
    /\ call.op = "playlistItems.delete"
    /\ removed_count > 0

\* C4: the cost of a call is charged even when the call fails: a failed
\* read, insert or delete still increases quota_used by its cost.
C4_FailedCallCharged ==
    call.op # "none" /\ ~call.ok => quota_used = call.before + call.cost

(***************************************************************************)
(* The insertion pass on its own: batch_add_videos_to_playlist entered     *)
(* with a duration-descending list of videos and a ledger value.           *)
(***************************************************************************)
\* the longest list of videos handed to the insertion pass
MaxDesired == 11

\* n videos, longest first
Desired(n) ==
    [k \in 1..n |-> NewVideo(300 + k, IF k <= 2 THEN PT1H2M3S ELSE PT10M1S)]

\* ledger values at the start of the pass: 0, the values around the most a
\* run can have spent when it reaches the pass (the scan and the details
\* lookup stop above 9500), and the values that leave room for exactly 3, 2,
\* 1 and 0 inserts
InsertStartQuotas ==
    {0, SCAN_STOP - MUTATION_COST, SCAN_STOP, SCAN_STOP + 1,
     BUDGET - 3 * MUTATION_COST - 1, BUDGET - 3 * MUTATION_COST,
     BUDGET - 3 * MUTATION_COST + 1, BUDGET - MUTATION_COST,
     BUDGET - MUTATION_COST + 1, BUDGET}

InsertInit ==
    /\ pc = "adding"
    /\ outcome = "running"
    /\ quota_used \in InsertStartQuotas
    /\ clock = RunClock
    /\ playlists = <<SmallPlaylist>>
    /\ handles = Len(SmallPlaylist)
    /\ subscriptions = <<>>
    /\ yesterday_playlist_id = 1
    /\ yesterday_start = RunStart
    /\ current_videos = <<>>
    /\ next_page_token = 0
    /\ actual_publish_dates = {}
    /\ videos_to_remove = <<>>
    /\ removed_count = 0
    /\ i = 1
    /\ channels = <<>>
    /\ uploads_data = <<>>
    /\ \E n \in 0..MaxDesired : videos_to_add = Desired(n)
    /\ all_video_ids = videos_to_add
    /\ long_videos = videos_to_add
    /\ added_count = 0
    /\ faults_left \in {0, 1}
    /\ call = NoCall
    /\ lookup_log = <<>>
    /\ scan_log = <<>>
    /\ pass_start_quota = quota_used
    /\ NoReportInit

InsertNext == batch_add_videos_to_playlist

InsertSpec == InsertInit /\ [][InsertNext]_vars

\* the videos of the items that the pass appended to the managed playlist
Inserted ==
    [k \in 1..(Len(playlists[1]) - Len(SmallPlaylist)) |->
        playlists[1][Len(SmallPlaylist) + k].video]

\* C5: for the insertion pass started with quota_used = q on a list of n
\* videos where every insert call succeeds, exactly
\* min(n, floor((10000 - q) / 50)) inserts are issued (the loop has taken
\* i - 1 turns that issued a call), the returned added count is that number,
\* the inserted videos are the first ones of the list, in order, and the pass
\* ends without an error.
C5_PartialInsertion ==
    (pc = "report" /\ added_count = i - 1) =>
        LET afforded == (BUDGET - pass_start_quota) \div MUTATION_COST
            k == IF Len(videos_to_add) <= afforded THEN Len(videos_to_add)
                 ELSE afforded
        IN  /\ i - 1 = k
            /\ added_count = k
            /\ Inserted = SubSeq(videos_to_add, 1, k)
            /\ quota_used = pass_start_quota + k * MUTATION_COST
            /\ outcome = "running"

\* a budget for exactly 3 mutations and 10 desired videos: 3 added
C5_Witness ==
    /\ pc = "report"
    /\ pass_start_quota = BUDGET - 3 * MUTATION_COST
    /\ Len(videos_to_add) = 10
    /\ added_count = 3
    /\ i = 4
    /\ Len(Inserted) = 3

(***************************************************************************)
(* A batch lookup on its own: batch_get_channel_uploads on a list of       *)
(* channels, batch_get_video_details on a list of videos.                  *)
(***************************************************************************)
\* the longest list of identifiers handed to a lookup
MaxLookup == 101

LookupSizes ==
    {0, 1, BATCH_SIZE - 1, BATCH_SIZE, BATCH_SIZE + 1, 2 * BATCH_SIZE, MaxLookup}

\* n channels; upstream has no record of every seventh
LookupChannels(n) == [k \in 1..n |-> Channel(k, k % 7 # 0, <<>>)]

\* n videos of the target day, short and long; upstream has no record of
\* every seventh
LookupVideos(n) ==
    [k \in 1..n |->
        Video(k, Stamp(RunStart + HOUR),
              IF k % 3 = 0 THEN PT45S ELSE IF k % 3 = 1 THEN PT10M1S ELSE PT1H2M3S,
              k % 7 # 0)]

\* ledger values at the start of a lookup: 0 and the values around the stop
\* of batch_get_video_details
LookupStartQuotas == {0, DETAILS_STOP - 1, DETAILS_STOP, DETAILS_STOP + 1}

LookupInit ==
    /\ pc \in {"uploads", "details"}
    /\ outcome = "running"
    /\ quota_used \in LookupStartQuotas
    /\ clock = RunClock
    /\ playlists = <<SmallPlaylist>>
    /\ handles = Len(SmallPlaylist)
    /\ subscriptions = <<>>
    /\ yesterday_playlist_id = 1
    /\ yesterday_start = RunStart
    /\ current_videos = <<>>
    /\ next_page_token = 0
    /\ actual_publish_dates = {}
    /\ videos_to_remove = <<>>
    /\ removed_count = 0
    /\ i = 1
    /\ \E n \in LookupSizes :
          /\ channels = IF pc = "uploads" THEN LookupChannels(n) ELSE <<>>
          /\ all_video_ids = IF pc = "details" THEN LookupVideos(n) ELSE <<>>
    /\ uploads_data = <<>>
    /\ long_videos = <<>>
    /\ videos_to_add = <<>>
    /\ added_count = 0
    /\ faults_left \in 0..MaxFaults
    /\ call = NoCall
    /\ lookup_log = <<>>
    /\ scan_log = <<>>
    /\ pass_start_quota = quota_used
    /\ NoReportInit

LookupNext ==
    \/ batch_get_channel_uploads
    \/ batch_get_video_details

LookupSpec == LookupInit /\ [][LookupNext]_vars

LookupOfChannels == pc \in {"uploads", "scan"}

LookupEnded == pc \notin {"uploads", "details"}

\* the identifiers handed to the lookup
LookupIds == IF LookupOfChannels THEN channels ELSE all_video_ids

\* the result of the lookup so far
LookupResult == IF LookupOfChannels THEN uploads_data ELSE long_videos

\* the number of read calls the lookup has issued
LookupCalls == Len(lookup_log)

\* the chunk with the identifier at position p of the list
ChunkOf(p) == ((p - 1) \div 50) + 1

\* upstream has a record of x and the lookup keeps it
Produced(x) == x.live /\ (LookupOfChannels \/ parse_duration(x.duration) > 600)

\* C6 as stated: a lookup of N identifiers that has ended has issued exactly
\* ceil(N/50) read calls, each with at most 50 identifiers, and every record
\* of its result belongs to an identifier of the input list.
C6_ExactlyCeilCalls ==
    LookupEnded =>
        /\ LookupCalls = CeilDiv(Len(LookupIds), 50)
        /\ \A k \in 1..LookupCalls : lookup_log[k].n <= 50
        /\ Range(LookupResult) \subseteq Range(LookupIds)

\* C6 amended: the k-th read call of a lookup carries the k-th chunk of at
\* least 1 and at most 50 identifiers, there are never more than ceil(N/50)
\* calls, every record of the result belongs to an identifier of the input
\* list, batch_get_video_details issues a call only with quota_used <= 9500,
\* and a lookup that has ended has issued exactly ceil(N/50) calls unless it
\* is batch_get_video_details stopped by quota_used > 9500.
C6_CeilCallsUnlessStopped ==
    LET N == Len(LookupIds)
    IN  /\ \A k \in 1..LookupCalls :
              /\ lookup_log[k].first = 50 * (k - 1) + 1
              /\ lookup_log[k].n >= 1
              /\ lookup_log[k].n <= 50
              /\ lookup_log[k].n = IF N - 50 * (k - 1) < 50 THEN N - 50 * (k - 1) ELSE 50
        /\ LookupCalls <= CeilDiv(N, 50)
        /\ Range(LookupResult) \subseteq Range(LookupIds)
        /\ (pc = "details" /\ call.op = "videos.list") => call.before <= 9500
        /\ LookupEnded =>
              \/ LookupCalls = CeilDiv(N, 50)
              \/ ~LookupOfChannels /\ quota_used > 9500

\* batch_get_video_details ended by its stop after some, not all, of the calls
C6_Witness ==
    /\ LookupEnded
    /\ ~LookupOfChannels
    /\ LookupCalls >= 1
    /\ LookupCalls < CeilDiv(Len(LookupIds), 50)
    /\ quota_used > 9500

\* C7 as stated: when the read call of a chunk has failed, a lookup that has
\* ended has requested every chunk, its result holds the record of every
\* identifier of a chunk that succeeded (when upstream has one and the lookup
\* keeps it) and no record of an identifier of a chunk that failed.
C7_OnlyFailedChunkMissing ==
    (LookupEnded /\ \E k \in 1..LookupCalls : ~lookup_log[k].ok) =>
        /\ LookupCalls = CeilDiv(Len(LookupIds), 50)
        /\ \A p \in 1..Len(LookupIds) :
              LET c == ChunkOf(p)
              IN  c <= LookupCalls =>
                     (LookupIds[p] \in Range(LookupResult)
                        <=> (lookup_log[c].ok /\ Produced(LookupIds[p])))

\* C7 amended: when the read call of a chunk has failed, a lookup that has
\* ended has requested every chunk, unless it is batch_get_video_details
\* stopped by quota_used > 9500; its result holds the record of every
\* identifier of a requested chunk that succeeded (when upstream has one and
\* the lookup keeps it), and no record of an identifier of a chunk that
\* failed or was not requested.
C7_FailedChunkSkippedOnly ==
    (LookupEnded /\ \E k \in 1..LookupCalls : ~lookup_log[k].ok) =>
        /\ \/ LookupCalls = CeilDiv(Len(LookupIds), 50)
           \/ ~LookupOfChannels /\ quota_used > 9500
        /\ \A p \in 1..Len(LookupIds) :
              LET c == ChunkOf(p)
              IN  LookupIds[p] \in Range(LookupResult)
                     <=> (c <= LookupCalls /\ lookup_log[c].ok
                            /\ Produced(LookupIds[p]))

\* three chunks, the second failed: the records of the first and of the third
\* are in the result, none of the second is
C7_Witness ==
    /\ LookupEnded
    /\ LookupCalls = 3
    /\ lookup_log[1].ok /\ ~lookup_log[2].ok /\ lookup_log[3].ok
    /\ LookupIds[1] \in Range(LookupResult)
    /\ LookupIds[Len(LookupIds)] \in Range(LookupResult)
    /\ LookupIds[50 + 1] \notin Range(LookupResult)

(***************************************************************************)
(* The scan on its own: batch_get_recent_videos_daily on two sources, the  *)
(* first with any short feed of timestamps around the target day, the      *)
(* second with the feed [day2, day2, day1, day0, day0].                    *)
(***************************************************************************)
\* the longest feed of the first source
MaxFeedLen == 3

\* the day before the target day, its last millisecond, the first instant of
\* the target day, its noon, its last second and the middle of that second,
\* the first instant of the next day and its noon, and a malformed string
ScanStamps ==
    {Stamp(RunStart - 12 * HOUR), Stamp(RunStart - 1), Stamp(RunStart),
     Stamp(RunStart + 12 * HOUR), Stamp(RunStart + DAY - 1000),
     Stamp(RunStart + DAY - 500), Stamp(RunStart + DAY),
     Stamp(RunStart + DAY + 12 * HOUR), BadStamp}

\* the feed with these publishedAt strings, newest first or not
FeedOf(stamps, base) ==
    [k \in 1..Len(stamps) |->
        FeedItem(stamps[k], Video(base + k, stamps[k], PT10M1S, TRUE))]

ExampleFeed ==
    FeedOf(<<Stamp(RunStart + DAY + 6 * HOUR), Stamp(RunStart + DAY + 3 * HOUR),
             Stamp(RunStart + 12 * HOUR), Stamp(RunStart - 6 * HOUR),
             Stamp(RunStart - 12 * HOUR)>>, 50)

\* the run of RunClock, and a run fourteen hours later, after midnight in
\* Hong Kong
ScanClocks == {RunClock, RunClock + 14 * HOUR}

ScanStartQuotas == {0, SCAN_STOP, SCAN_STOP + 1}

ScanInit ==
    /\ pc = "scan"
    /\ outcome = "running"
    /\ quota_used \in ScanStartQuotas
    /\ clock \in ScanClocks
    /\ playlists = <<SmallPlaylist>>
    /\ handles = Len(SmallPlaylist)
    /\ subscriptions = <<>>
    /\ yesterday_playlist_id = 1
    /\ yesterday_start = get_yesterday_dates(clock)[1]
    /\ current_videos = <<>>
    /\ next_page_token = 0
    /\ actual_publish_dates = {}
    /\ videos_to_remove = <<>>
    /\ removed_count = 0
    /\ i = 1
    /\ \E n \in 0..MaxFeedLen : \E stamps \in [1..n -> ScanStamps] :
          uploads_data = <<Channel(1, TRUE, FeedOf(stamps, 0)),
                           Channel(2, TRUE, ExampleFeed)>>
    /\ channels = uploads_data
    /\ all_video_ids = <<>>
    /\ long_videos = <<>>
    /\ videos_to_add = <<>>
    /\ added_count = 0
    /\ faults_left \in {0, 1}
    /\ call = NoCall
    /\ lookup_log = <<>>
    /\ scan_log = <<>>
    /\ pass_start_quota = quota_used
    /\ NoReportInit

ScanNext == batch_get_recent_videos_daily

ScanSpec == ScanInit /\ [][ScanNext]_vars

\* the beginning of the target day: the Hong Kong calendar day before the
\* one of the clock
TargetDayStart == (((clock + 8 * HOUR) \div DAY) - 1) * DAY - 8 * HOUR

\* the beginning of the next day
TargetDayEnd == TargetDayStart + 24 * HOUR

\* the feed of the source of an entry of the scan log
FeedOfEntry(e) == uploads_data[e.source].feed

\* the entries of the scan log whose page was read
ScannedEntries == {k \in 1..Len(scan_log) : scan_log[k].ok}

\* the item at position k of the feed was emitted by the scan of entry e
Emitted(e, k) == FeedOfEntry(e)[k].video \in Range(e.ids)

WellFormed(item) == item.publishedAt.wf

\* C8 as stated: an item with a well-formed timestamp that the scan examines
\* is emitted if and only if start <= published_at < end, where start is the
\* beginning of the target day and end is start + 24 hours.
C8_EmitIffInHalfOpenWindow ==
    \A n \in ScannedEntries :
        LET e == scan_log[n]
        IN  \A k \in 1..e.examined :
               WellFormed(FeedOfEntry(e)[k]) =>
                  (Emitted(e, k) <=>
                      (TargetDayStart <= FeedOfEntry(e)[k].publishedAt.t
                         /\ FeedOfEntry(e)[k].publishedAt.t < TargetDayEnd))

\* the positions of the feed of entry e with a timestamp before start
Older(e) ==
    {k \in 1..Len(FeedOfEntry(e)) :
        WellFormed(FeedOfEntry(e)[k])
          /\ FeedOfEntry(e)[k].publishedAt.t < TargetDayStart}

\* the first of them
FirstOlder(e) == CHOOSE k \in Older(e) : \A j \in Older(e) : k <= j

\* C9: the scan reads one page per source, in the order of the sources; in a
\* source whose page was read, the first item with published_at < start is
\* the last item examined and no item after it is emitted (without such an
\* item the whole page is examined); the scan then goes on with the next
\* source, until every source is done or quota_used > 9500; and with the
\* window day1 the feed [day2, day2, day1, day0, day0] yields exactly the one
\* day1 item.
C9_FirstOlderItemEndsSource ==
    /\ \A n \in 1..Len(scan_log) : scan_log[n].source = n
    /\ \A n \in ScannedEntries :
          LET e == scan_log[n]
          IN  /\ e.examined =
                    IF Older(e) = {} THEN Len(FeedOfEntry(e)) ELSE FirstOlder(e)
              /\ \A k \in 1..Len(FeedOfEntry(e)) :
                    (Older(e) # {} /\ k >= FirstOlder(e)) => ~Emitted(e, k)
              /\ (e.source = 2 /\ clock = RunClock) =>
                    e.ids = <<ExampleFeed[3].video>> /\ e.examined = 4
    /\ pc # "scan" => (Len(scan_log) = Len(uploads_data) \/ quota_used > 9500)

\* the first source stopped at an older item before the end of its feed, and
\* the second source was scanned after it
C9_Witness ==
    /\ pc # "scan"
    /\ clock = RunClock
    /\ Len(scan_log) = 2
    /\ scan_log[1].ok /\ scan_log[2].ok
    /\ Older(scan_log[1]) # {}
    /\ scan_log[1].examined < Len(FeedOfEntry(scan_log[1]))
    /\ scan_log[1].ids # <<>>
    /\ scan_log[2].ids = <<ExampleFeed[3].video>>

\* C10 as stated: in a source whose page was read, an examined item with a
\* well-formed published_at >= end is not the last item examined unless it is
\* the last of the feed, and every examined item after it with
\* start <= published_at < end is emitted.
C10_NewerItemNeverStops ==
    \A n \in ScannedEntries :
        LET e == scan_log[n]
            f == FeedOfEntry(e)
        IN  \A k \in 1..e.examined :
               (WellFormed(f[k]) /\ f[k].publishedAt.t >= TargetDayEnd) =>
                  /\ k < Len(f) => e.examined >= k + 1
                  /\ \A j \in (k + 1)..e.examined :
                        (WellFormed(f[j]) /\ TargetDayStart <= f[j].publishedAt.t
                           /\ f[j].publishedAt.t < TargetDayEnd)
                          => Emitted(e, j)

(***************************************************************************)
(* The scan of a long feed: the first source has n items of the target     *)
(* day, newest first and one second apart, followed by m older items.      *)
(***************************************************************************)
\* the most items of the target day in the feed of the first source
MaxFeedItems == 52

LongFeed(n, m) ==
    FeedOf([k \in 1..(n + m) |->
               IF k <= n THEN Stamp(RunStart + 12 * HOUR - k * 1000)
               ELSE Stamp(RunStart - k * 1000)], 0)

PagedScanInit ==
    /\ pc = "scan"
    /\ outcome = "running"
    /\ quota_used \in ScanStartQuotas
    /\ clock = RunClock
    /\ playlists = <<SmallPlaylist>>
    /\ handles = Len(SmallPlaylist)
    /\ subscriptions = <<>>
    /\ yesterday_playlist_id = 1
    /\ yesterday_start = RunStart
    /\ current_videos = <<>>
    /\ next_page_token = 0
    /\ actual_publish_dates = {}
    /\ videos_to_remove = <<>>
    /\ removed_count = 0
    /\ i = 1
    /\ \E n \in 0..MaxFeedItems : \E m \in {0, 1, 2} :
          uploads_data = <<Channel(1, TRUE, LongFeed(n, m)),
                           Channel(2, TRUE, ExampleFeed)>>
    /\ channels = uploads_data
    /\ all_video_ids = <<>>
    /\ long_videos = <<>>
    /\ videos_to_add = <<>>
    /\ added_count = 0
    /\ faults_left \in {0, 1}
    /\ call = NoCall
    /\ lookup_log = <<>>
    /\ scan_log = <<>>
    /\ pass_start_quota = quota_used
    /\ NoReportInit

PagedScanSpec == PagedScanInit /\ [][ScanNext]_vars

\* every timestamp of the feed is well formed and none is newer than the one
\* before it
NewestFirst(f) ==
    /\ \A k \in 1..Len(f) : WellFormed(f[k])
    /\ \A k \in 1..(Len(f) - 1) : f[k].publishedAt.t >= f[k + 1].publishedAt.t

\* C11 as stated: for every source whose page was read (the scan was not cut
\* by the budget before it) and whose feed is newest first, every item of the
\* feed with start <= published_at < end is emitted, whatever the length of
\* the feed.
C11_EveryInWindowItemEmitted ==
    \A n \in ScannedEntries :
        LET e == scan_log[n]
            f == FeedOfEntry(e)
        IN  NewestFirst(f) =>
               \A k \in 1..Len(f) :
                  (TargetDayStart <= f[k].publishedAt.t
                     /\ f[k].publishedAt.t < TargetDayEnd) => Emitted(e, k)

(***************************************************************************)
(* The budget stop and the malformed timestamps of the scan (ScanSpec).    *)
(***************************************************************************)
RECURSIVE Collected(_)
\* the candidates of the entries of a scan log, in the order of the log
Collected(log) ==
    IF log = <<>> THEN <<>>
    ELSE Collected(SubSeq(log, 1, Len(log) - 1)) \o log[Len(log)].ids

\* C12: every feed read of the scan is preceded by the check and is issued
\* with quota_used <= 9500; in a state with quota_used > 9500 the scan takes
\* no step but its end, which reads nothing and leaves the ledger and the
\* candidates as they are; the scan ends before its last source only with
\* quota_used > 9500; and the candidates are at every moment exactly those
\* collected from the sources read so far.
C12_ScanStopsAboveThreshold ==
    /\ [](call.op = "playlistItems.list" => (call.gated /\ call.before <= 9500))
    /\ [](all_video_ids = Collected(scan_log))
    /\ [](pc # "scan" => (Len(scan_log) = Len(uploads_data) \/ quota_used > 9500))
    /\ [][(pc = "scan" /\ quota_used > 9500)
            => (pc' # "scan" /\
                UNCHANGED <<quota_used, all_video_ids, scan_log, call>>)]_vars

\* the scan stopped by the threshold after the first of two sources, with the
\* candidates of that source
C12_Witness ==
    /\ pc = "details"
    /\ Len(uploads_data) = 2
    /\ Len(scan_log) = 1
    /\ quota_used = 9501
    /\ scan_log[1].ok
    /\ all_video_ids = scan_log[1].ids
    /\ all_video_ids # <<>>

\* the item at position k of feed f has a well-formed timestamp that is a
\* whole second of the target day
OnTargetDay(f, k) ==
    /\ WellFormed(f[k])
    /\ TargetDayStart <= f[k].publishedAt.t
    /\ f[k].publishedAt.t <= TargetDayEnd - 1000

\* C13: in a source whose page was read, an item with a malformed timestamp
\* that the scan reaches (no item before it is older than the window) is
\* examined and not emitted, the item after it is examined too, the items of
\* the target day before it and those examined after it are emitted, and the
\* scan goes on to the remaining sources (unless quota_used > 9500).
C13_MalformedTimestampSkipped ==
    /\ \A n \in ScannedEntries :
          LET e == scan_log[n]
              f == FeedOfEntry(e)
          IN  \A k \in 1..Len(f) :
                 (~WellFormed(f[k]) /\ \A j \in Older(e) : j > k) =>
                    /\ e.examined >= k
                    /\ k < Len(f) => e.examined >= k + 1
                    /\ ~Emitted(e, k)
                    /\ \A j \in 1..e.examined : OnTargetDay(f, j) => Emitted(e, j)
                    /\ \A j \in 1..Len(e.ids) : e.ids[j] \in Range(all_video_ids)
    /\ pc # "scan" => (Len(scan_log) = Len(uploads_data) \/ quota_used > 9500)

\* a feed of three items, the second malformed, the first and the third of
\* the target day: both are emitted and the second source is scanned
C13_Witness ==
    /\ pc # "scan"
    /\ Len(scan_log) = 2
    /\ scan_log[1].ok /\ scan_log[2].ok
    /\ Len(FeedOfEntry(scan_log[1])) = 3
    /\ ~WellFormed(FeedOfEntry(scan_log[1])[2])
    /\ scan_log[1].examined = 3
    /\ Len(scan_log[1].ids) = 2
    /\ scan_log[2].ids # <<>>
    /\ Len(all_video_ids) = 3

(***************************************************************************)
(* The duration filter on its own: batch_get_video_details on one video    *)
(* with any short duration string, on short lists of videos in every       *)
(* order, and on lists of more than one batch.                             *)
(***************************************************************************)
\* the longest duration string made of DurationChars
MaxDurationLen == 5

\* the most videos of a list in every order
MaxVideos == 3

DurationChars == {"P", "T", "M", "S", "1", "x"}

ShortStrings == UNION {[1..n -> DurationChars] : n \in 0..MaxDurationLen}

PT == <<"P", "T">>
PT9M60S == <<"P", "T", "9", "M", "6", "0", "S">>
PT01H == <<"P", "T", "0", "1", "H">>
PT2H5S == <<"P", "T", "2", "H", "5", "S">>
PT5Mxyz == <<"P", "T", "5", "M", "x", "y", "z">>
P1DT2H == <<"P", "1", "D", "T", "2", "H">>
PT1S2H == <<"P", "T", "1", "S", "2", "H">>

ExampleDurations == <<PT45S, PT10M, PT10M1S, PT1H2M3S, PT9M60S>>

OtherDurations == {PT, PT01H, PT2H5S, PT5Mxyz, P1DT2H, PT1S2H}

\* videos of the target day with these duration strings
WithDurations(durations) ==
    [k \in 1..Len(durations) |->
        Video(k, Stamp(RunStart + HOUR), durations[k], TRUE)]

\* more videos than one batch holds, their durations taking turns from
\* position r of ExampleDurations on
Rotating(r) ==
    WithDurations([k \in 1..(BATCH_SIZE + 2) |->
                      ExampleDurations[((k + r) % Len(ExampleDurations)) + 1]])

DurationInputs ==
    {WithDurations(<<d>>) : d \in ShortStrings \cup OtherDurations}
    \cup {WithDurations(ds) :
            ds \in UNION {[1..n -> Range(ExampleDurations)] : n \in 2..MaxVideos}}
    \cup {Rotating(r) : r \in 0..(Len(ExampleDurations) - 1)}

DurationInit ==
    /\ pc = "details"
    /\ outcome = "running"
    /\ all_video_ids \in DurationInputs
    /\ quota_used \in IF Len(all_video_ids) = 1 THEN {0} ELSE {0, DETAILS_STOP}
    /\ faults_left \in IF Len(all_video_ids) = 1 THEN {0} ELSE {0, 1}
    /\ clock = RunClock
    /\ playlists = <<SmallPlaylist>>
    /\ handles = Len(SmallPlaylist)
    /\ subscriptions = <<>>
    /\ yesterday_playlist_id = 1
    /\ yesterday_start = RunStart
    /\ current_videos = <<>>
    /\ next_page_token = 0
    /\ actual_publish_dates = {}
    /\ videos_to_remove = <<>>
    /\ removed_count = 0
    /\ i = 1
    /\ channels = <<>>
    /\ uploads_data = <<>>
    /\ long_videos = <<>>
    /\ videos_to_add = <<>>
    /\ added_count = 0
    /\ call = NoCall
    /\ lookup_log = <<>>
    /\ scan_log = <<>>
    /\ pass_start_quota = quota_used
    /\ NoReportInit

DurationNext == batch_get_video_details

DurationSpec == DurationInit /\ [][DurationNext]_vars

\* s is empty, or digits followed by the unit letter
IsPart(s, unit) ==
    \/ s = <<>>
    \/ /\ Len(s) >= 2
       /\ s[Len(s)] = unit
       /\ \A k \in 1..(Len(s) - 1) : s[k] \in Digits

RECURSIVE Number(_)
\* the number that the digits of s write
Number(s) ==
    IF s = <<>> THEN 0 ELSE DigitVal(Head(s)) * 10 ^ (Len(s) - 1) + Number(Tail(s))

PartValue(s) == IF s = <<>> THEN 0 ELSE Number(SubSeq(s, 1, Len(s) - 1))

\* the ways to cut d after PT into an hours, a minutes and a seconds part
Cuts(d) ==
    {c \in (2..Len(d)) \X (2..Len(d)) :
        /\ c[1] <= c[2]
        /\ IsPart(SubSeq(d, 3, c[1]), "H")
        /\ IsPart(SubSeq(d, c[1] + 1, c[2]), "M")
        /\ IsPart(SubSeq(d, c[2] + 1, Len(d)), "S")}

\* d is PT[h H][m M][s S]
WellEncoded(d) ==
    /\ Len(d) >= 2
    /\ d[1] = "P" /\ d[2] = "T"
    /\ Cuts(d) # {}

\* hours*3600 + minutes*60 + seconds of a well encoded d
EncodedSeconds(d) ==
    LET c == CHOOSE x \in Cuts(d) : TRUE
    IN  PartValue(SubSeq(d, 3, c[1])) * 3600
          + PartValue(SubSeq(d, c[1] + 1, c[2])) * 60
          + PartValue(SubSeq(d, c[2] + 1, Len(d)))

\* C14 as stated: parse_duration of PT1H2M3S is 3723, of PT45S is 45, of PT
\* and of the empty value is 0; of every duration string that the filter has
\* decoded it is hours*3600 + minutes*60 + seconds when the string is
\* PT[h H][m M][s S], and 0 when the string is anything else.
C14_ParseDurationDecodes ==
    /\ parse_duration(PT1H2M3S) = 3723
    /\ parse_duration(PT45S) = 45
    /\ parse_duration(PT) = 0
    /\ parse_duration(<<>>) = 0
    /\ (call.op = "videos.list" /\ call.ok) =>
          \A k \in 1..Len(all_video_ids) :
             LET d == all_video_ids[k].duration
             IN  parse_duration(d) = IF WellEncoded(d) THEN EncodedSeconds(d) ELSE 0

\* C15: every video that the duration filter holds, while it runs and when it
\* has returned, has a decoded duration strictly greater than 600 seconds; a
\* video of the input whose duration decodes to exactly 600 is never among
\* them.
C15_OnlyLongerThanThreshold ==
    /\ \A k \in 1..Len(long_videos) :
          /\ parse_duration(long_videos[k].duration) > 600
          /\ WellEncoded(long_videos[k].duration) =>
                EncodedSeconds(long_videos[k].duration) > 600
    /\ \A k \in 1..Len(videos_to_add) : parse_duration(videos_to_add[k].duration) > 600
    /\ \A k \in 1..Len(all_video_ids) :
          parse_duration(all_video_ids[k].duration) = 600 =>
             all_video_ids[k] \notin Range(long_videos) \cup Range(videos_to_add)

\* the filter has returned; of a video of 600 seconds and one of 601 seconds
\* it returned the second only
C15_Witness ==
    /\ pc = "adding"
    /\ Len(all_video_ids) = 2
    /\ all_video_ids[1].duration = PT10M
    /\ all_video_ids[2].duration = PT10M1S
    /\ long_videos = <<all_video_ids[2]>>

\* C16: the list that the duration filter returns is in non-increasing order
\* of decoded duration, and so is the list of the videos to add.
C16_SortedLongestFirst ==
    pc \in {"adding", "sheet"} =>
        /\ \A k \in 1..(Len(long_videos) - 1) :
              parse_duration(long_videos[k].duration)
                 >= parse_duration(long_videos[k + 1].duration)
        /\ videos_to_add = long_videos

\* the filter has returned the videos of two batches, the second of which
\* held a longer video than the first of the result's input order
C16_Witness ==
    /\ pc = "adding"
    /\ Len(lookup_log) = 2
    /\ lookup_log[1].ok /\ lookup_log[2].ok
    /\ Len(long_videos) > 2
    /\ \E k \in 1..(Len(all_video_ids) - 1) :
          /\ parse_duration(all_video_ids[k].duration) > 600
          /\ parse_duration(all_video_ids[k + 1].duration)
                > parse_duration(all_video_ids[k].duration)
    /\ parse_duration(long_videos[1].duration) = 3723
    /\ parse_duration(long_videos[Len(long_videos)].duration) = 601

(***************************************************************************)
(* The removal pass on its own: remove_old_videos_from_playlist on a       *)
(* managed playlist of any few members.                                    *)
(***************************************************************************)
\* the most members of the managed playlist
MaxPlaylist == 3

\* a member published before the target day, one published in its last
\* millisecond, one that upstream no longer has a record of, one published at
\* the first instant of the target day, one published during it, and one whose
\* publish date does not parse
MemberKinds ==
    {[publishedAt |-> Stamp(RunStart - HOUR), live |-> TRUE],
     [publishedAt |-> Stamp(RunStart - 1), live |-> TRUE],
     [publishedAt |-> Stamp(RunStart - HOUR), live |-> FALSE],
     [publishedAt |-> Stamp(RunStart), live |-> TRUE],
     [publishedAt |-> Stamp(RunStart + HOUR), live |-> TRUE],
     [publishedAt |-> BadStamp, live |-> TRUE]}

Members(kinds) ==
    Items([k \in 1..Len(kinds) |->
              Video(900 + k, kinds[k].publishedAt, PT10M1S, kinds[k].live)])

\* ledger values at the start of the pass: 0, and the value that after the
\* two reads of a short playlist leaves room for one delete
RemovalStartQuotas == {0, BUDGET - MUTATION_COST - 2 * READ_COST}

RemovalInit ==
    /\ pc = "list_playlist"
    /\ outcome = "running"
    /\ quota_used \in RemovalStartQuotas
    /\ clock = RunClock
    /\ \E n \in 0..MaxPlaylist : \E kinds \in [1..n -> MemberKinds] :
          playlists = <<Members(kinds)>>
    /\ handles = Len(playlists[1])
    /\ subscriptions = <<>>
    /\ yesterday_playlist_id = 1
    /\ yesterday_start = RunStart
    /\ current_videos = <<>>
    /\ next_page_token = 0
    /\ actual_publish_dates = {}
    /\ videos_to_remove = <<>>
    /\ removed_count = 0
    /\ i = 1
    /\ channels = <<>>
    /\ uploads_data = <<>>
    /\ all_video_ids = <<>>
    /\ long_videos = <<>>
    /\ videos_to_add = <<>>
    /\ added_count = 0
    /\ faults_left \in 0..MaxFaults
    /\ call = NoCall
    /\ lookup_log = <<>>
    /\ scan_log = <<>>
    /\ pass_start_quota = quota_used
    /\ NoReportInit

RemovalNext ==
    \/ get_playlist_videos
    \/ get_publish_dates
    \/ remove_old_videos

RemovalSpec == RemovalInit /\ [][RemovalNext]_vars

\* the member was published strictly before the window start
Stale(member) ==
    /\ member.video.publishedAt.wf
    /\ member.video.publishedAt.t < TargetDayStart

\* the removal pass has returned
RemovalEnded == pc = "load_progress"

\* C18 as stated: when the removal pass has listed the members and returned
\* without being stopped by the budget, and every delete it issued succeeded,
\* no member of the managed
\* playlist has a published_at strictly before the window start, whether or
\* not the publish-date lookup returned a record for it.
C18_NoStaleMemberRemains ==
    (/\ RemovalEnded
     /\ current_videos # <<>>
     /\ ~(i <= Len(videos_to_remove) /\ RemovalRefused)
     /\ removed_count = i - 1)
       => \A k \in 1..Len(playlists[1]) : ~Stale(playlists[1][k])

(***************************************************************************)
(* The two mutation passes, each on its own.                               *)
(***************************************************************************)
PassesInit == RemovalInit \/ InsertInit

PassesNext == RemovalNext \/ InsertNext

PassesSpec == PassesInit /\ [][PassesNext]_vars

\* the items marked for removal that are no longer in the managed playlist
Removed ==
    {k \in 1..Len(videos_to_remove) :
        videos_to_remove[k] \notin Range(playlists[yesterday_playlist_id])}

\* C20: a removal pass that has returned has attempted every marked item
\* unless the budget stopped it, and its removed count is the number of
\* marked items that its deletes took out of the playlist (a failed delete
\* leaves its item in and is not counted); an insertion pass that has
\* returned has attempted every video unless the budget stopped it, and its
\* added count is the number of items that its inserts put into the playlist,
\* each one a video of the list.
C20_FailedItemSkippedNotCounted ==
    /\ RemovalEnded =>
          /\ i = Len(videos_to_remove) + 1 \/ RemovalRefused
          /\ removed_count = Cardinality(Removed)
          /\ removed_count <= i - 1
          /\ Len(current_videos) > 0 =>
                Len(playlists[yesterday_playlist_id])
                   = Len(current_videos) - removed_count
    /\ pc = "report" =>
          /\ i = Len(videos_to_add) + 1 \/ InsertRefused
          /\ added_count = Len(Inserted)
          /\ added_count <= i - 1
          /\ Range(Inserted) \subseteq Range(videos_to_add)

\* three items marked, the delete of the second failed: the first and the
\* third are removed and the count is 2
C20_Witness ==
    /\ RemovalEnded
    /\ Len(videos_to_remove) = 3
    /\ Removed = {1, 3}
    /\ removed_count = 2
    /\ i = 4

(***************************************************************************)
(* Two runs for the same target day: the second starts a minute after the  *)
(* first has ended, as a new process (quota_used = 0).                     *)
(***************************************************************************)
\* a video published ten seconds before the target day and put into the
\* upload feed five seconds after it began, after an ordinary video of the
\* target day and before an old one
DriftFeed ==
    <<FeedItem(Stamp(RunStart + 2 * HOUR), NewVideo(31, PT1H2M3S)),
      FeedItem(Stamp(RunStart + 5000),
               Video(32, Stamp(RunStart - 10000), PT10M1S, TRUE)),
      FeedItem(Stamp(RunStart - HOUR), OldVideo(33))>>

DriftChannels == <<Channel(5, TRUE, DriftFeed)>>

\* main() again: a new manager, a later clock on the same day
run_again ==
    /\ pc = "done"
    /\ clock = RunClock
    /\ pc' = "find"
    /\ quota_used' = 0
    /\ clock' = clock + 60 * 1000
    /\ outcome' = "running"
    /\ yesterday_playlist_id' = 0
    /\ yesterday_start' = 0
    /\ current_videos' = <<>>
    /\ next_page_token' = 0
    /\ actual_publish_dates' = {}
    /\ videos_to_remove' = <<>>
    /\ removed_count' = 0
    /\ i' = 1
    /\ channels' = <<>>
    /\ uploads_data' = <<>>
    /\ all_video_ids' = <<>>
    /\ long_videos' = <<>>
    /\ videos_to_add' = <<>>
    /\ added_count' = 0
    /\ call' = NoCall
    /\ lookup_log' = <<>>
    /\ scan_log' = <<>>
    /\ pass_start_quota' = 0
    /\ progress' = <<>>
    /\ spreadsheet_id' = 0
    /\ sheet_success' = FALSE
    /\ saved' = <<>>
    /\ reads_done' = 0
    /\ mutations_done' = 0
    /\ UNCHANGED <<playlists, handles, subscriptions, faults_left,
                   progress_file, sheets, sheet>>
    /\ UNCHANGED limits

TwoRunInit ==
    /\ pc = "find"
    /\ quota_used = 0
    /\ clock = RunClock
    /\ playlists \in {<<>>, <<SmallPlaylist>>}
    /\ subscriptions \in {FewChannels, DriftChannels}
    /\ faults_left \in 0..MaxFaults
    /\ handles = IF playlists = <<>> THEN 0 ELSE Len(playlists[1])
    /\ progress_file \in ProgressFiles
    /\ sheets = TRUE
    /\ sheet = OldSheet
    /\ LocalsInit
    /\ NoLimits

TwoRunNext ==
    \/ Next
    \/ run_again

TwoRunSpec == TwoRunInit /\ [][TwoRunNext]_vars

SecondRun == clock > RunClock

\* the videos of the upload feeds of the subscriptions
FeedVideos ==
    UNION {{subscriptions[c].feed[k].video : k \in 1..Len(subscriptions[c].feed)} :
              c \in 1..Len(subscriptions)}

\* C17 as stated: a delete that the removal pass of the second run has issued
\* is for a member published strictly before the window start, and never for
\* an item that the first run inserted (the first run inserts videos of the
\* upload feeds; the members it found are no feed videos).
C17_SecondRunKeepsInserted ==
    (/\ SecondRun
     /\ pc \in {"removing", "load_progress"}
     /\ call.op = "playlistItems.delete")
       => /\ Stale(videos_to_remove[i - 1])
          /\ videos_to_remove[i - 1].video \notin FeedVideos

\* C19: an insertion pass that has returned after every insert succeeded,
\* without a stop by the budget, has put every video of its list at the end
\* of the managed playlist, in the order of the list, whether or not the
\* playlist already held the video.
C19_InsertsWithoutMembershipCheck ==
    (/\ pc = "report"
     /\ i = Len(videos_to_add) + 1
     /\ added_count = Len(videos_to_add))
       => LET items == playlists[yesterday_playlist_id]
              n == Len(videos_to_add)
          IN  /\ Len(items) >= n
              /\ \A k \in 1..n : items[Len(items) - n + k].video = videos_to_add[k]

\* the second run has added the videos that the first run had added: the
\* managed playlist holds a video twice
C19_Witness ==
    /\ SecondRun
    /\ pc = "report"
    /\ added_count = Len(videos_to_add)
    /\ added_count > 0
    /\ \E a, b \in 1..Len(playlists[yesterday_playlist_id]) :
          /\ a < b
          /\ playlists[yesterday_playlist_id][a].video
                = playlists[yesterday_playlist_id][b].video

(***************************************************************************)
(* The progress file across two runs for the same target day.              *)
(***************************************************************************)
\* the record that load_progress returned is of the target day of this run
\* and says that the run that wrote it did not add every video
SameDayResume ==
    /\ progress # <<>>
    /\ progress[1].target_date = TargetDate(yesterday_start)
    /\ ~progress[1].completed

\* the record that load_progress returned is of another day
OtherDayProgress ==
    /\ progress # <<>>
    /\ progress[1].target_date # TargetDate(yesterday_start)

\* C21 as stated: a run that has loaded a progress record of its own target
\* day with completed = false issues none of the discovery reads again (no
\* subscription listing, no channel lookup, no feed read), and a run that
\* has loaded a record of another day and has ended with the results has
\* listed the subscriptions and scanned the feeds.
C21_ResumeSkipsDiscovery ==
    /\ SameDayResume =>
          /\ call.op \notin {"subscriptions.list", "channels.list"}
          /\ scan_log = <<>>
    /\ (OtherDayProgress /\ pc = "done" /\ outcome = "completed") =>
          /\ channels # <<>>
          /\ scan_log # <<>>

(***************************************************************************)
(* The progress file at the end of a run: C22 and C23, on the whole run.   *)
(***************************************************************************)
\* the run went through the results and the save of the progress file
ReachedSave == pc = "done" /\ outcome = "completed"

\* C22: when a run has gone through the save of the progress file, the file
\* is absent if the added count equals the number of videos to add, and
\* otherwise it holds the record of this run, of the target day, with
\* completed = false; the removal leaves the file absent whether or not it
\* was there.
C22_CheckpointErasedIffComplete ==
    /\ ReachedSave =>
          /\ saved # <<>>
          /\ IF added_count = Len(videos_to_add)
             THEN progress_file = <<>>
             ELSE /\ LoadedProgress(progress_file) = <<saved[Len(saved)]>>
                  /\ ~LoadedProgress(progress_file)[1].completed
                  /\ LoadedProgress(progress_file)[1].target_date
                        = TargetDate(yesterday_start)
                  /\ LoadedProgress(progress_file)[1].new_videos_added
                        = added_count
    /\ os_remove(<<>>) = <<>>
    /\ os_remove(progress_file) = <<>>

\* a run in which the insert of one of two videos failed has ended: the
\* progress file is there
C22_Witness ==
    /\ ReachedSave
    /\ Len(videos_to_add) = 2
    /\ added_count = 1
    /\ progress_file # <<>>

\* the subscription listing stopped on quota_used > 9000 with a next page left
SubsStopped == outcome # "aborted" /\ Len(channels) < Len(subscriptions)

\* the feed scan stopped on quota_used > 9500 before the last source
ScanStopped == Len(scan_log) < Len(uploads_data)

\* the video details lookup stopped on quota_used > 9500 before the last batch
DetailsStopped == Len(lookup_log) < NumBatches(all_video_ids)

\* the insertion pass stopped on quota_used + 50 > 10000 before the last video
InsertStopped == i <= Len(videos_to_add)

\* the run has returned, and one of its steps had stopped on the budget
EndedEarlyOnBudget ==
    /\ pc = "done"
    /\ outcome \in {"no_videos", "no_long_videos", "completed"}
    /\ SubsStopped \/ ScanStopped \/ DetailsStopped \/ InsertStopped

\* C23 as stated: when a run in which the subscription listing, the feed
\* scan, the details lookup or the insertion pass stopped on the budget has
\* returned, the progress file holds a record of the target day with
\* completed = false.
C23_EarlyEndLeavesCheckpoint ==
    EndedEarlyOnBudget =>
        /\ progress_file # <<>>
        /\ LoadedProgress(progress_file)[1].target_date
              = TargetDate(yesterday_start)
        /\ ~LoadedProgress(progress_file)[1].completed

(***************************************************************************)
(* Failing reads: C24 and C25, on the whole run.                           *)
(***************************************************************************)
\* C24 as stated: when the playlists.list call of find_playlist_by_name has
\* raised, the next step of the run issues no mutating call (no playlist
\* creation, no delete, no insert) and leaves the progress file as it was.
C24_FailedLookupAborts ==
    [][(call.op = "playlists.list" /\ ~call.ok)
          => (call'.op \notin MutatingOps /\ progress_file' = progress_file)]_vars

\* the pages of the listing of s before page number token
PagesBefore(s, token) == SubSeq(s, 1, Min(Len(s), token * MAX_RESULTS))

\* C25 as stated: when one read call has raised, the run is not aborted and
\* what the pages and chunks read before it gave is kept: a failed
\* subscription page leaves the channels of the earlier pages to the run, a
\* failed page of the managed playlist leaves the members of the earlier
\* pages, a failed feed read leaves the video ids collected so far and a
\* failed lookup chunk leaves the records of the earlier chunks.
C25_FailedReadLosesOnlyItsPage ==
    (call.op \notin MutatingOps /\ call.op \notin {"none", "playlists.list"}
        /\ ~call.ok)
      => /\ outcome # "aborted"
         /\ (call.op = "subscriptions.list") =>
               channels = PagesBefore(subscriptions, next_page_token)
         /\ (call.op = "playlistItems.list" /\ pc = "load_progress") =>
               current_videos = PagesBefore(playlists[yesterday_playlist_id],
                                            next_page_token)
         /\ (call.op = "playlistItems.list" /\ scan_log # <<>>) =>
               all_video_ids = Collected(scan_log)

(***************************************************************************)
(* The subscription listing on its own: get_subscriptions_batch entered    *)
(* with a ledger value, on subscription lists of up to three pages.        *)
(***************************************************************************)
\* the longest subscription list
MaxSubs == 101

Subs(n) == [k \in 1..n |-> Channel(400 + k, TRUE, <<>>)]

\* ledger values at the start of the listing: 0 and the values around the
\* stop at quota_used > 9000
SubsStartQuotas ==
    {0, SUBS_STOP - 2, SUBS_STOP - 1, SUBS_STOP, SUBS_STOP + 1}

SubsInit ==
    /\ pc = "subs"
    /\ outcome = "running"
    /\ quota_used \in SubsStartQuotas
    /\ clock = RunClock
    /\ playlists = <<SmallPlaylist>>
    /\ handles = Len(SmallPlaylist)
    /\ \E n \in 0..MaxSubs : subscriptions = Subs(n)
    /\ yesterday_playlist_id = 1
    /\ yesterday_start = RunStart
    /\ current_videos = <<>>
    /\ next_page_token = 0
    /\ actual_publish_dates = {}
    /\ videos_to_remove = <<>>
    /\ removed_count = 0
    /\ i = 1
    /\ channels = <<>>
    /\ uploads_data = <<>>
    /\ all_video_ids = <<>>
    /\ long_videos = <<>>
    /\ videos_to_add = <<>>
    /\ added_count = 0
    /\ faults_left \in {0, 1}
    /\ call = NoCall
    /\ lookup_log = <<>>
    /\ scan_log = <<>>
    /\ pass_start_quota = quota_used
    /\ NoReportInit

SubsNext == get_subscriptions_batch

SubsSpec == SubsInit /\ [][SubsNext]_vars

RECURSIVE ListFrom(_, _, _)
\* get_subscriptions_batch when no call raises, from the request of page
\* number token with the ledger at used: the list it returns, the ledger at
\* the return, and whether the loop ended at the test of quota_used > 9000
\* (stopped) or at a response without nextPageToken
ListFrom(s, token, used) ==
    IF ~HasNextPage(s, token)
    THEN [channels |-> Page(s, token), quota_used |-> used + READ_COST,
          stopped |-> FALSE]
    ELSE IF SubsRefused(used + READ_COST)
    THEN [channels |-> Page(s, token), quota_used |-> used + READ_COST,
          stopped |-> TRUE]
    ELSE LET rest == ListFrom(s, token + 1, used + READ_COST)
         IN  [rest EXCEPT !.channels = Page(s, token) \o @]

\* the listing has returned
SubsReturned == pc \in {"uploads", "done"} /\ outcome # "aborted"

\* C26 as stated: what the caller of get_subscriptions_batch has when the
\* listing stopped on the budget with a next page left (the returned list and
\* the ledger) is what it has after no listing that ended at a response
\* without a next page, started from the same ledger value: the two ends can
\* be told apart.
C26_PartialResultSignalled ==
    SubsReturned =>
        LET mine == ListFrom(subscriptions, 0, pass_start_quota)
        IN  /\ channels = mine.channels
            /\ quota_used = mine.quota_used
            /\ mine.stopped =>
                  ~\E n \in 0..MaxSubs :
                      LET other == ListFrom(Subs(n), 0, pass_start_quota)
                      IN  /\ ~other.stopped
                          /\ other.channels = channels
                          /\ other.quota_used = quota_used

(***************************************************************************)
(* The ledger as a sum of call costs: C27, on the whole run.               *)
(***************************************************************************)
\* C27: in every reachable state of a run quota_used is 1 for each listing
\* or batch read call charged plus 50 for each insert, delete or playlist
\* creation charged, whatever the number of items of the page or chunk.
C27_LedgerIsSumOfCosts ==
    quota_used = 1 * reads_done + 50 * mutations_done

\* the managed playlist of 187 videos was listed in pages of 50, 50, 50 and
\* 37 items and looked up in four chunks, and two deletes were charged
C27_Witness ==
    /\ pc = "removing"
    /\ next_page_token = 3
    /\ Len(current_videos) = MidPlaylist
    /\ reads_done = 9
    /\ mutations_done = 2
    /\ quota_used = 109

(***************************************************************************)
(* The progress store on its own: save_progress and load_progress called   *)
(* one after the other on records of the form of progress_data.            *)
(***************************************************************************)
\* the number of saves before a load, at most
MaxSaves == 2

\* records as run_daily_videos_manager builds them: with and without a
\* spreadsheet id, of two target days, complete or not
ProgressRecords ==
    {[StaleProgress EXCEPT !.spreadsheet_id = sid,
                           !.sheets_integration = (sid # 0),
                           !.target_date = day,
                           !.new_videos_added = added,
                           !.completed = (added = 2)] :
        sid \in {0, 1},
        day \in {TargetDate(RunStart) - 1, TargetDate(RunStart)},
        added \in {0, 1, 2}}

\* self.save_progress(data), called on its own
save_progress_call ==
    /\ pc = "store"
    /\ Len(saved) < MaxSaves
    /\ \E data \in ProgressRecords :
         /\ progress_file' = save_progress(progress_file, data)
         /\ saved' = Append(saved, data)
    /\ pc' \in {"store", "load_progress"}
    /\ UNCHANGED <<outcome, quota_used, upstream, yesterday_playlist_id,
                   yesterday_start, removal_locals, i, discovery_locals,
                   faults_left, call, logs, progress, sheets, sheet,
                   spreadsheet_id, sheet_success, counters>>
    /\ UNCHANGED limits

ProgressInit ==
    /\ pc \in {"store", "load_progress"}
    /\ quota_used = 0
    /\ clock = RunClock
    /\ playlists = <<>>
    /\ handles = 0
    /\ subscriptions = <<>>
    /\ faults_left = 0
    /\ progress_file = <<>>
    /\ sheets = TRUE
    /\ sheet = <<>>
    /\ LocalsInit
    /\ NoLimits

ProgressNext ==
    \/ save_progress_call
    \/ load_progress

ProgressSpec == ProgressInit /\ [][ProgressNext]_vars

\* C28: what load_progress returns is none when nothing was saved, and
\* otherwise the record handed to the last save_progress, and only that one.
C28_LoadReturnsLastSaved ==
    pc = "subs" =>
        /\ saved = <<>> => progress = <<>>
        /\ saved # <<>> => progress = <<saved[Len(saved)]>>

\* two different records were saved, the second one without a spreadsheet
\* id and complete, and load_progress returned the second
C28_Witness ==
    /\ pc = "subs"
    /\ Len(saved) = 2
    /\ saved[1] # saved[2]
    /\ saved[2].spreadsheet_id = 0
    /\ saved[2].completed
    /\ progress = <<saved[2]>>

(***************************************************************************)
(* The sheet after the report step: C29, over two runs that both find the  *)
(* links of an earlier run in the sheet.                                   *)
(***************************************************************************)
\* C29: when add_video_links_to_sheet has returned True in a run, the sheet
\* holds the header row and then one row per video of long_videos, in the
\* order of long_videos, which is longest first, and nothing else: the
\* header alone when there is no long video, and no row of an earlier run.
C29_SheetIsHeaderThenLinks ==
    sheet_success =>
        /\ Len(sheet) = Len(long_videos) + 1
        /\ sheet[1] = <<"Video Links">>
        /\ \A k \in 1..Len(long_videos) :
              sheet[k + 1] = <<<<"https://www.youtube.com/watch?v=",
                                 long_videos[k].id>>>>
        /\ \A k \in 1..(Len(long_videos) - 1) :
              parse_duration(long_videos[k].duration)
                 >= parse_duration(long_videos[k + 1].duration)

\* the first run found the five rows of an earlier day in the sheet and has
\* written the links of its two long videos, the longer one first
C29_Witness ==
    /\ ~SecondRun
    /\ sheet_success
    /\ pc = "save"
    /\ Len(long_videos) = 2
    /\ parse_duration(long_videos[1].duration)
          > parse_duration(long_videos[2].duration)
    /\ Len(sheet) = 3

(***************************************************************************)
(* Termination: C30, on the whole run, which takes a step whenever it can. *)
(***************************************************************************)
\* runs on a managed playlist and subscriptions of ordinary size, with up to
\* MaxFaults calls that raise, and on a managed playlist of four pages with
\* subscriptions of two pages (channels that have uploaded nothing), with up
\* to one call that raises
FairInit ==
    /\ pc = "find"
    /\ quota_used = 0
    /\ clock = RunClock
    /\ \/ /\ playlists \in {<<>>, <<SmallPlaylist>>}
          /\ subscriptions \in {<<>>, FewChannels}
          /\ faults_left = MaxFaults
       \/ /\ playlists = <<RecentPlaylist>>
          /\ subscriptions = Subs(MAX_RESULTS + 1)
          /\ faults_left \in {0, 1}
    /\ handles = IF playlists = <<>> THEN 0 ELSE Len(playlists[1])
    /\ progress_file \in ProgressFiles
    /\ sheets = TRUE
    /\ sheet = OldSheet
    /\ LocalsInit
    /\ NoLimits

\* the run is one sequential process, never suspended for ever
FairSpec == FairInit /\ [][Next]_vars /\ WF_vars(Next)

\* C30: each request of the two paginated listings is for a page that
\* upstream has (the first page, or a page that begins inside the list), so
\* each listing ends after the last page at the latest, and every run ends.
C30_ListingsAndRunTerminate ==
    /\ [](pc = "list_playlist" =>
            next_page_token * MAX_RESULTS
               < Max(1, Len(playlists[yesterday_playlist_id])))
    /\ [](pc = "subs" =>
            next_page_token * MAX_RESULTS < Max(1, Len(subscriptions)))
    /\ <>(pc = "done")

\* a run has ended after it listed a managed playlist of four pages and the
\* subscriptions of two pages
C30_Witness ==
    /\ pc = "done"
    /\ Len(current_videos) = MidPlaylist
    /\ Len(channels) = MAX_RESULTS + 1

(***************************************************************************)
(* What a run inserts: C31, over two runs.                                 *)
(***************************************************************************)
\* the video of the insert that the run issued last
InsertTarget == videos_to_add[i - 1]

\* the instant is inside the window of the run, both ends included
InsideRunWindow(t) ==
    LET window == get_yesterday_dates(clock)
    IN  window[1] <= t /\ t <= window[2]

\* the scan of this run read a feed page with an item of this video whose
\* timestamp is well formed and inside the window, and emitted the video
ScanEmittedInsideWindow(video) ==
    \E e \in ScannedEntries :
       /\ video \in Range(scan_log[e].ids)
       /\ \E k \in 1..Len(Page(FeedOfEntry(scan_log[e]), 0)) :
             LET item == FeedOfEntry(scan_log[e])[k]
             IN  /\ item.video = video
                 /\ item.publishedAt.wf
                 /\ InsideRunWindow(item.publishedAt.t)

\* C31: every insert that a run issues into the managed playlist, whether it
\* succeeds or raises, is of a video that the scan of the same run emitted as
\* inside the window and whose decoded duration is strictly greater than 600
\* seconds.
C31_InsertsOnlyScannedLongVideos ==
    call.op = "playlistItems.insert" =>
       /\ ScanEmittedInsideWindow(InsertTarget)
       /\ parse_duration(InsertTarget.duration) > 600

\* the second run has issued an insert that succeeded and then one that
\* raised
C31_Witness ==
    /\ SecondRun
    /\ call.op = "playlistItems.insert"
    /\ ~call.ok
    /\ added_count = 1
    /\ i = 3

(***************************************************************************)
(* The order of the passes of a run: C32, over two runs.                   *)
(***************************************************************************)
\* the steps of a run up to the end of the removal pass
RemovalSteps == {"find", "create", "list_playlist", "publish_dates", "removing"}

\* the reads that only the discovery issues
DiscoveryOps == {"subscriptions.list", "channels.list"}

\* this run has issued no discovery read and no insert
NothingDiscoveredOrInserted ==
    /\ channels = <<>>
    /\ uploads_data = <<>>
    /\ scan_log = <<>>
    /\ lookup_log = <<>>
    /\ all_video_ids = <<>>
    /\ added_count = 0
    /\ call.op \notin DiscoveryOps \cup {"playlistItems.insert"}

\* C32: within one run the removal pass is over (complete, or stopped on the
\* budget) before any discovery read and before any insert is issued: until
\* then the run has discovered and inserted nothing, and a
\* playlistItems.delete is only ever issued by the removal pass, so no
\* insert precedes a delete of the same run.
C32_RemovalBeforeDiscoveryAndInsertion ==
    /\ [](pc \in RemovalSteps => NothingDiscoveredOrInserted)
    /\ [][(/\ call'.op = "playlistItems.delete"
           /\ (quota_used' # quota_used \/ faults_left' # faults_left))
          => (pc = "removing" /\ NothingDiscoveredOrInserted)]_vars

\* a run that removed a stale video has ended after it inserted two videos
C32_Witness ==
    /\ pc = "done"
    /\ removed_count = 1
    /\ added_count = 2

(***************************************************************************)
(* The early returns and the progress file: C33, over two runs.            *)
(***************************************************************************)
\* the run has returned early: the playlist could not be created, there is
\* no subscribed channel, no video in the window, no video that is long
EarlyReturns == {"create_failed", "no_channels", "no_videos", "no_long_videos"}

\* none of the conditions of the early returns holds in this run
NoEarlyReturnCondition ==
    /\ yesterday_playlist_id # 0
    /\ channels # <<>>
    /\ all_video_ids # <<>>
    /\ long_videos # <<>>

\* C33: on every early return of run_daily_videos_manager (the creation of
\* the playlist failed, no subscribed channel, no video in the window, no
\* video longer than 600 seconds) the progress file is neither written nor
\* removed: save_progress is not called, and from the return on the file is
\* what it was; the file only ever changes in a run in which none of the
\* four conditions holds.
C33_EarlyReturnLeavesCheckpoint ==
    /\ [](outcome \in EarlyReturns => saved = <<>>)
    /\ [][(outcome \in EarlyReturns) => (progress_file' = progress_file)]_vars
    /\ [][(progress_file' # progress_file)
          => (outcome = "running" /\ NoEarlyReturnCondition)]_vars

\* the second run has returned early, and the progress file is the one that
\* the first run stored for this target day
C33_Witness ==
    /\ SecondRun
    /\ pc = "done"
    /\ outcome \in EarlyReturns
    /\ progress_file # <<>>
    /\ json_load(progress_file[1]).target_date = TargetDate(RunStart)

(***************************************************************************)
(* run_daily_videos_manager(max_channels, max_videos): C34.                *)
(***************************************************************************)
\* the largest limit passed
MaxLimit == 2

\* a run called with limits: each of them None (0) or a positive number, on
\* a managed playlist and subscriptions of ordinary size, with up to one call
\* that raises
LimitInit ==
    /\ pc = "find"
    /\ quota_used = 0
    /\ clock = RunClock
    /\ playlists \in {<<>>, <<SmallPlaylist>>}
    /\ subscriptions \in {<<>>, FewChannels}
    /\ faults_left \in {0, 1}
    /\ handles = IF playlists = <<>> THEN 0 ELSE Len(playlists[1])
    /\ progress_file \in ProgressFiles
    /\ sheets = TRUE
    /\ sheet = OldSheet
    /\ max_channels \in 0..MaxLimit
    /\ max_videos \in 0..MaxLimit
    /\ LocalsInit

LimitSpec == LimitInit /\ [][Next]_vars

\* the managed playlist has an item of this video
InManagedPlaylist(video) ==
    \E k \in 1..Len(playlists[yesterday_playlist_id]) :
       playlists[yesterday_playlist_id][k].video = video

\* C34: when a run has gone through the save of the progress file and the
\* record it saved has completed = true, or the file was removed, every video
\* that the duration filter returned in this run was inserted into the
\* managed playlist, whatever max_videos is.
C34_CompletedOnlyIfAllInserted ==
    (ReachedSave /\ (saved[Len(saved)].completed \/ progress_file = <<>>)) =>
       /\ added_count = Len(long_videos)
       /\ \A k \in 1..Len(long_videos) : InManagedPlaylist(long_videos[k])

====
